---- MODULE Spec2Model ----
(***************************************************************************)
(* chat2act: the webhook coordinator (ChatbotController.handleWebhook),    *)
(* its request-id deduplication, the per-conversation processing lock, the *)
(* race of the RAG pipeline against the 4 s timer, the background          *)
(* continuation of a pipeline that lost the race, and the Conversation     *)
(* document (pendingReplyText, messages).                                  *)
(*                                                                         *)
(* Node runs one callback at a time: every action below is one run of the  *)
(* event loop, from the resumption of an await to the next suspension.     *)
(* The effect of a store call (findOne, save) is taken when the call is    *)
(* issued; the code after the await is a later action.                     *)
(***************************************************************************)
EXTENDS Integers, Sequences, FiniteSets, TLC

\* ---------------------------------------------------------------- bounds
MaxTurns == 2          \* webhook events delivered in one behaviour
MaxAge == 6            \* minutes for which the age of a pending reply is tracked
MaxAdds == 12          \* addMessage calls in one behaviour of SpecHistory
MaxRuns == 3           \* processMessage invocations in one behaviour of SpecDecision
MaxTokens == 2         \* access tokens issued to the tenant in one behaviour
MaxSets == 3           \* setKnownId calls in one behaviour of SpecKnownIds
MaxSends == 2          \* sendOperatorMessage calls in one behaviour of SpecSend

\* ------------------------------------------------------- program constants
MaxMessages == 10      \* Conversation.js: slice(-10)
FreshMinutes == 5      \* Conversation.js: 5 * 60 * 1000 ms
TickMinutes == FreshMinutes + 1

InterimMessage == "I'm working on it, give me a moment..."
ContentionMessage == "Please wait, I'm still processing your previous message..."
ErrorMessage == "Sorry, something went wrong. Please try again."
UnhandledMessage == "I received your message."
GreetingText == "Hi there! How can I assist you today?"
ActionDone == "Great! I executed GET /orders successfully."
\* processMessage resolves with the text of a branch, or with the apology of
\* its catch block (the same string as the handler's own error reply)
PipelineResults == {ActionDone, ErrorMessage}

\* ------------------------------------------------------------ input sets
Orgs == {"o1"}
Visitors == {"v1", "v2"}
NoId == "none"
RequestIds == {"r1", "r2"}
Handlers == {"ping", "trigger", "message", "other"}
Event(h, r, o, v) == [handler |-> h, rid |-> r, org |-> o, visitor |-> v]
\* the payloads delivered: a ping, a trigger, text messages of two visitors
\* and an event of another kind that carries no request id
Events == {Event("ping", "r2", "o1", "v1"), Event("trigger", "r1", "o1", "v1"),
           Event("message", "r1", "o1", "v1"), Event("message", "r2", "o1", "v1"),
           Event("message", "r2", "o1", "v2"), Event("other", NoId, "o1", "v1")}
\* the events of two visitors of two tenants whose ids contain the separator
\* of conversationKey (orgController.js:125-126: org_id is any string, the
\* visitor id is the visitor's email or conversation id)
KeyOrgs == {"acme", "acme_eu"}
KeyVisitors == {"eu_bob", "bob"}
KeyEvents == {Event("trigger", "r1", "acme", "eu_bob"),
              Event("message", "r1", "acme", "eu_bob"),
              Event("message", "r2", "acme_eu", "bob")}
Pairs == (Orgs \X Visitors) \cup {<<"acme", "eu_bob">>, <<"acme_eu", "bob">>}
Turns == 1 .. MaxTurns

Null == "null"
NoConv == [exists |-> FALSE, screenName |-> FALSE, pendingReplyText |-> Null]
DbError == [exists |-> FALSE, screenName |-> FALSE, pendingReplyText |-> "error"]
NewConv == [exists |-> TRUE, screenName |-> FALSE, pendingReplyText |-> Null]

NoEvent == [handler |-> "none", rid |-> NoId, org |-> "", visitor |-> ""]
\* a response: the return statement of handleWebhook that wrote it,
\* the HTTP status, the shape of the body and the text of the reply
NoResp == [via |-> "none", status |-> 0, body |-> "none", text |-> ""]
Reply(via, status, body, text) ==
    [via |-> via, status |-> status, body |-> body, text |-> text]
NoAux == [heldAtArrival |-> FALSE, readAge |-> 0, syncRel |-> FALSE]

VARIABLES
    processedRequests,  \* this.processedRequests (Set of request ids)
    timers,             \* pending setTimeout(..., 60000) callbacks per request id
    processingLock,     \* keys of this.processingLock (Map key -> true)
    db,                 \* Conversation collection: (orgId, visitorId) -> document
    pendingAge,         \* minutes since pendingReplyText of the document was written
    sessions,           \* pairs with a session stored by redisSessionService
    nTurns,             \* webhook events received so far
    inp,                \* req.body of the event received last
    req,                \* payload of each turn, as far as it is used after the first
                        \* await (the request id is not)
    pc,                 \* position of each handleWebhook invocation
    conversation,       \* local `conversation` of the turn (result of findOne): what
                        \* the handler reads of it, its pendingReplyText
    saveOk,             \* whether the turn's conversation.save() succeeded
    pipe,               \* state of the turn's pipelinePromise
    pipeResult,         \* value the pipelinePromise resolved with
    cont,               \* position of the background continuation of the turn
    conv,               \* local `conv` of the continuation (result of findOne): what
                        \* the continuation reads of it, existence and screenName
    out,                \* the HTTP response written last
    bg,                 \* how the background continuation that ended last ended
    aux,                \* observations of the turn: whether its lock was held when it
                        \* arrived, the age of the pending reply it read, whether its
                        \* finally block deleted the lock
    messages,           \* Conversation.messages of one document (SpecHistory)
    added               \* every message passed to addMessage so far (SpecHistory)

VARIABLES
    convStore,          \* the stored Conversation document of one visitor, as far as
                        \* the pipeline uses it: existence, clarificationAttempts
    orgStore,           \* the stored Organization document: oauthCredentials
    nRuns,              \* processMessage invocations started so far
    ppc,                \* position of the processMessage invocation
    doc,                \* the in-memory `conversation` document of the invocation
    decision,           \* the `decision` object handleDecision works on
    resp,               \* the `response` text of the invocation, once computed
    settled,            \* state and value of the promise processMessage returned
    counts,             \* calls the invocation has issued: vector searches, decision
                        \* calls, auto-resolutions, executeApiCall for the endpoint
    ex,                 \* the executeApiCall invocation of handleDecision
    obs,                \* observations of the invocation: the stored counter when it
                        \* started, whether tryResolveUserId returned a userId in
                        \* an earlier one, its userMessage, the messages its addMessage
                        \* calls have saved, the decision as it was returned,
                        \* whether a call it awaited threw
    streak              \* the latest consecutive low-confidence turns: stored counter
                        \* before, kind of response, stored counter after

VARIABLES
    isConnected,        \* redisService.isConnected
    redisKnownIds,      \* the value under `knownIds:${orgId}:${visitorId}` in Redis,
                        \* for the conversation of convStore
    known,              \* the object that getKnownIds returned last
    nSets,              \* setKnownId calls so far
    endpoint,           \* the endpoint spec passed to buildRequest last
    parameters,         \* the parameters object passed to buildRequest last
    request             \* the request that buildRequest returned last

decVars == <<convStore, orgStore, nRuns, ppc, doc, decision, resp, settled, counts,
             ex, obs, streak>>
idVars == <<isConnected, redisKnownIds, known, nSets>>
brVars == <<endpoint, parameters, request>>

VARIABLES
    salesiqToken,       \* the SalesiqToken document of the portal (screenName)
    sender,             \* the sendOperatorMessage invocation: its position, the
                        \* requests it has posted to the message endpoint, its
                        \* calls of refreshAccessToken and of retryOnce, the
                        \* status of the first error, its result
    nSends              \* sendOperatorMessage invocations started so far

sendVars == <<salesiqToken, sender, nSends>>
coordVars == <<processedRequests, timers, processingLock, db, pendingAge, sessions,
               nTurns, inp, req, pc, conversation, saveOk, pipe, pipeResult, cont, conv,
               out, bg, aux>>
histVars == <<messages, added>>
vars == <<coordVars, histVars, decVars, idVars, brVars, sendVars>>

\* orgController.js:222   const conversationKey = `${orgId}_${visitorId}`
conversationKey(org, visitor) == org \o "_" \o visitor
KeyOf(t) == conversationKey(req[t].org, req[t].visitor)
PairOf(t) == <<req[t].org, req[t].visitor>>

\* ------------------------------------------------------------- predicates
\* orgController.js:97   validation ping (every event of Events has a handler)
IsPingNever(e) == FALSE

IsPing(e) == e.handler = "ping"

\* orgController.js:105  requestId && this.processedRequests.has(requestId)
IsDuplicateNoCheck(rid) == FALSE

IsDuplicate(rid) == rid # NoId /\ rid \in processedRequests

\* orgController.js:207  conversation?.pendingReplyText  (truthy)
HasPendingReplyOtherField(c) == c.exists /\ c.pendingReplyText = "lastPendingResult"

HasPendingReply(c) == c.exists /\ c.pendingReplyText # Null

\* the fields of a document that handleWebhook reads (orgController.js:207-209)
ReadPending(c) == [NoConv EXCEPT !.exists = c.exists,
                                 !.pendingReplyText = c.pendingReplyText]

\* the fields of a document that the continuation reads (orgController.js:268)
ReadHandles(c) == [NoConv EXCEPT !.exists = c.exists, !.screenName = c.screenName]

\* orgController.js:224  this.processingLock.has(conversationKey)
LockHeldOtherKey(key) == (key \o "_") \in processingLock

LockHeld(key) == key \in processingLock

\* orgController.js:298-313  text of the reply after the race
RaceReplyAlwaysInterim(timedOut, result) == InterimMessage

RaceReply(timedOut, result) == IF timedOut THEN InterimMessage ELSE result

\* orgController.js:268  conv && conv.activeConversationId && conv.screenName
\* (activeConversationId is a required field of every stored document)
CanPush(c) == c.exists /\ c.screenName

\* ------------------------------------------- the pipeline: constants
\* ragOrchestrationService.js:19-20 (confidence in hundredths)
confidenceThreshold == 80
maxClarificationAttempts == 2

ConversationalReply == "I understand you're asking a question. How can I help you with that?"
NoDocsMessage == "I don't have any API documentation configured yet. Please upload your API spec first."
NoMatchMessage == "I didn't find a matching action for that - can you rephrase or try something else?"
RephraseMessage == "I'm having trouble understanding exactly what you need. Could you try rephrasing your request more specifically?"
ActionFailedMessage == "Sorry, that action failed - try again shortly"
AuthFailedMessage == "Authentication failed - please contact support"
ClarificationQuestion == "Could you provide your User ID?"
Reasoning == "list your orders"

\* decision.missing_parameters: lists of parameter names
Params == {"userId", "orderId"}
MissingLists == {<<>>, <<"userId">>, <<"orderId">>, <<"userId", "orderId">>}
Confidences == {79, 80, 95}
\* the decisions the reasoning service can return (decideEndpoint, JSON.parse)
Decisions == [call_api : BOOLEAN, missing_parameters : MissingLists,
              confidence : Confidences,
              clarification_question : {"", ClarificationQuestion}]
\* ragOrchestrationService.js:267-271: the decision returned when the call fails
ErrorDecision == [call_api |-> FALSE, missing_parameters |-> <<>>, confidence |-> 0,
                  clarification_question |-> ""]

\* the keys and values of a map of resolved parameters (Conversation.js:210)
IdKeys == {"userId", "email"}
IdValues == {"u1", "u2"}
NoIds == [k \in IdKeys |-> Null]
\* a key of Redis: absent, or holding the JSON text of an object
NoEntry == [stored |-> FALSE, value |-> NoIds]
Entry(obj) == [stored |-> TRUE, value |-> obj]
\* knownIds is a path of the schema (Conversation.js:210-214);
\* resolvedParameters is the property that tryResolveUserId sets on the
\* in-memory document (part_014:74-77)
NoDoc == [exists |-> FALSE, clarificationAttempts |-> 0, email |-> FALSE,
          knownIds |-> NoIds, resolvedParameters |-> NoIds]
NoCounts == [search |-> 0, decide |-> 0, resolve |-> 0, action |-> 0]
NoObs == [before |-> 0, message |-> "", greeting |-> FALSE, appended |-> <<>>,
          candidates |-> 0, decide |-> "none", resolvedEarlier |-> FALSE,
          searchThrew |-> FALSE, returned |-> ErrorDecision, resolved |-> FALSE,
          found |-> "none", resolver |-> "none", fault |-> FALSE]
Pending == [state |-> "pending", text |-> ""]
NoEx == [pc |-> "idle", expired |-> FALSE, old |-> 0, refreshes |-> 0,
         persisted |-> FALSE, fault |-> FALSE, outbound |-> 0, token |-> 0,
         http |-> "none", result |-> "none"]

\* the sendOperatorMessage invocation that has not started
NoSend == [pc |-> "idle", sends |-> 0, refreshes |-> 0, retries |-> 0,
           status |-> "none", result |-> [success |-> FALSE, error |-> "none"]]

\* ------------------------------------------ buildRequest: input sets
\* the names of the parameters, the places an endpoint spec declares them in
\* ("none": the spec has no entry of that name) and the values supplied
\* (Absent: the object has no such key; "": a value that is falsy)
ParamNames == {"id", "q", "note"}
Locations == {"path", "query", "header", "none"}
Absent == "absent"
ParamValues == {Absent, "", "v"}
Methods == {"GET", "post", "PUT", "patch", "DELETE"}
Endpoints == [method : Methods, parameters : [ParamNames -> Locations],
              requestBodySchema : BOOLEAN]
ParameterObjects == [ParamNames -> ParamValues]
NoEndpoint == [method |-> "GET", parameters |-> [n \in ParamNames |-> "none"],
               requestBodySchema |-> FALSE]
NoParameters == [n \in ParamNames |-> Absent]
\* `data` of a request: null, or an object
NoData == [object |-> FALSE, fields |-> NoParameters]
NoRequest == [method |-> "", path |-> NoParameters, params |-> NoParameters,
              headers |-> NoParameters, authorization |-> 0, data |-> NoData]

\* ------------------------------------------------------------------ Init
\* the state after construction of the controller and the services, over a
\* store in which visitor v1 (and eu_bob of acme) has the conversation
\* document `stored` and the other visitors have none yet
InitWith(stored) ==
    /\ processedRequests = {}
    /\ timers = [r \in RequestIds |-> 0]
    /\ processingLock = {}
    /\ db = [p \in Pairs |-> IF p \in {<<"o1", "v1">>, <<"acme", "eu_bob">>}
                                THEN stored ELSE NoConv]
    /\ pendingAge = [p \in Pairs |-> 0]
    /\ sessions = {}
    /\ nTurns = 0
    /\ inp = NoEvent
    /\ req = [t \in Turns |-> NoEvent]
    /\ pc = [t \in Turns |-> "idle"]
    /\ conversation = [t \in Turns |-> NoConv]
    /\ saveOk = [t \in Turns |-> FALSE]
    /\ pipe = [t \in Turns |-> "none"]
    /\ pipeResult = [t \in Turns |-> Null]
    /\ cont = [t \in Turns |-> "none"]
    /\ conv = [t \in Turns |-> NoConv]
    /\ out = NoResp
    /\ bg = "none"
    /\ aux = [t \in Turns |-> NoAux]
    /\ messages = <<>>
    /\ added = <<>>
    /\ convStore = NoDoc
    /\ orgStore = [accessToken |-> 1, expired |-> FALSE, refreshToken |-> "valid"]
    /\ nRuns = 0
    /\ ppc = "idle"
    /\ doc = NoDoc
    /\ decision = ErrorDecision
    /\ resp = ""
    /\ settled = Pending
    /\ counts = NoCounts
    /\ ex = NoEx
    /\ obs = NoObs
    /\ streak = <<>>
    /\ isConnected = TRUE
    /\ redisKnownIds = NoEntry
    /\ known = NoIds
    /\ nSets = 0
    /\ endpoint = NoEndpoint
    /\ parameters = NoParameters
    /\ request = NoRequest
    /\ salesiqToken = [exists |-> TRUE, refreshToken |-> TRUE, stale |-> FALSE]
    /\ sender = NoSend
    /\ nSends = 0

\* the stored conversation carries the handles of an open chat
Init == InitWith([NewConv EXCEPT !.screenName = TRUE])

\* the store outlives the process: the document also carries a pending reply
\* that the continuation of an earlier turn has written (StorePending)
InitPending ==
    InitWith([NewConv EXCEPT !.screenName = TRUE, !.pendingReplyText = ActionDone])

\* a handler that writes its response and goes on running
RespondAndGoOn(t, r) ==
    /\ out' = r
    /\ pc' = pc
    /\ conversation' = [conversation EXCEPT ![t] = NoConv]
    /\ saveOk' = [saveOk EXCEPT ![t] = FALSE]

\* res.json(...) / res.status(...).json(...) followed by the return of the
\* handler: the locals of the invocation are dropped
Respond(t, r) ==
    /\ out' = r
    /\ pc' = [pc EXCEPT ![t] = "done"]
    /\ conversation' = [conversation EXCEPT ![t] = NoConv]
    /\ saveOk' = [saveOk EXCEPT ![t] = FALSE]

\* the invocation and its background work are over: nothing refers to the
\* payload, the promise or the observations of the turn any more
Forget(t) ==
    /\ req' = [req EXCEPT ![t] = NoEvent]
    /\ aux' = [aux EXCEPT ![t] = NoAux]
    /\ pipe' = [pipe EXCEPT ![t] = "none"]
    /\ pipeResult' = [pipeResult EXCEPT ![t] = Null]

\* ------------------------------------------------- handleWebhook: arrival
\* a handler that would register the request id only after the event is handled
RegisterAfterHandling(rid) == UNCHANGED <<processedRequests, timers>>

\* orgController.js:109-114: the id of an accepted event enters the set and
\* its 60 s timer starts, before the event is dispatched
Register(rid) ==
    IF rid # NoId
      THEN /\ processedRequests' = processedRequests \cup {rid}
           /\ timers' = [timers EXCEPT ![rid] = @ + 1]
      ELSE UNCHANGED <<processedRequests, timers>>

\* orgController.js:90-206: from the entry of handleWebhook to its first await
Receive(t, e) ==
    /\ t = nTurns + 1
    /\ t <= MaxTurns
    /\ nTurns' = t
    /\ inp' = e
    /\ IF IsPing(e) THEN
           /\ Respond(t, Reply("ping", 200, "ok", ""))
           /\ UNCHANGED <<processedRequests, timers, req, aux>>
       ELSE IF IsDuplicate(e.rid) THEN
           /\ Respond(t, Reply("duplicate", 200, "empty", ""))
           /\ UNCHANGED <<processedRequests, timers, req, aux>>
       ELSE
           /\ Register(e.rid)
           /\ CASE e.handler = "trigger" ->
                     /\ pc' = [pc EXCEPT ![t] = "trigger"]
                     /\ req' = [req EXCEPT ![t] = [e EXCEPT !.rid = NoId]]
                     /\ UNCHANGED <<out, conversation, saveOk, aux>>
                [] e.handler = "message" ->
                     \* Conversation.findOne({ visitorId, orgId }) is issued
                     /\ \E c \in {ReadPending(db[<<e.org, e.visitor>>]), DbError} :
                            conversation' = [conversation EXCEPT ![t] = c]
                     /\ pc' = [pc EXCEPT ![t] = "findOne"]
                     /\ req' = [req EXCEPT ![t] = [e EXCEPT !.rid = NoId]]
                     /\ aux' = [aux EXCEPT ![t] =
                          [heldAtArrival |->
                               conversationKey(e.org, e.visitor) \in processingLock,
                           readAge |-> pendingAge[<<e.org, e.visitor>>],
                           syncRel |-> FALSE]]
                     /\ UNCHANGED <<out, saveOk>>
                [] OTHER ->
                     /\ Respond(t, Reply("unhandled", 200, "replies", UnhandledMessage))
                     /\ UNCHANGED <<req, aux>>
    /\ UNCHANGED <<processingLock, db, pendingAge, sessions, pipe, pipeResult,
                   cont, conv, bg, histVars, decVars, idVars, brVars, sendVars>>

\* orgController.js:113   setTimeout(() => this.processedRequests.delete(requestId), 60000)
ExpireRequestKeepsId(r) ==
    /\ timers[r] > 0
    /\ timers' = [timers EXCEPT ![r] = @ - 1]
    /\ UNCHANGED <<processedRequests, processingLock, db, pendingAge, sessions, nTurns,
                   req, pc, conversation, saveOk, pipe, pipeResult, cont, conv, out,
                   aux, bg, inp, histVars, decVars, idVars, brVars, sendVars>>

ExpireRequest(r) ==
    /\ timers[r] > 0
    /\ timers' = [timers EXCEPT ![r] = @ - 1]
    /\ processedRequests' = processedRequests \ {r}
    /\ UNCHANGED <<processingLock, db, pendingAge, sessions, nTurns, req, pc,
                   conversation, saveOk, pipe, pipeResult, cont, conv, out, aux,
                   bg, inp,
                   histVars, decVars, idVars, brVars, sendVars>>

\* orgController.js:129-196: the trigger event.  redis.get, storeSession and
\* generateGreeting catch their own failures.
TriggerDone(t) ==
    /\ pc[t] = "trigger"
    /\ sessions' = sessions \cup {PairOf(t)}
    /\ Respond(t, Reply("trigger", 200, "replies", GreetingText))
    /\ Forget(t)
    /\ UNCHANGED <<processedRequests, timers, processingLock, db, pendingAge, nTurns,
                   cont, conv, bg, inp,
                   histVars, decVars, idVars, brVars, sendVars>>

\* orgController.js:315-323: the finally block of the message turn
SyncFinallyKeepsLock(t) == UNCHANGED processingLock

SyncFinally(t) ==
    IF ~(KeyOf(t) \in processingLock)
      THEN UNCHANGED processingLock      \* "Already released in background continuation"
      ELSE processingLock' = processingLock \ {KeyOf(t)}

\* orgController.js:206-242: after `await Conversation.findOne`
AfterFindOne(t) ==
    /\ pc[t] = "findOne"
    /\ IF conversation[t] = DbError THEN
           \* the await throws: outer catch, orgController.js:333-341
           /\ Respond(t, Reply("error", 500, "replies", ErrorMessage))
           /\ Forget(t)
           /\ UNCHANGED <<processingLock, db, pendingAge>>
       ELSE IF HasPendingReply(conversation[t]) THEN
           \* conversation.pendingReplyText = null; conversation.save() is issued
           /\ \E ok \in BOOLEAN :
                 /\ saveOk' = [saveOk EXCEPT ![t] = ok]
                 /\ IF ok /\ db[PairOf(t)].exists
                      THEN /\ db' = [db EXCEPT ![PairOf(t)].pendingReplyText = Null]
                           /\ pendingAge' = [pendingAge EXCEPT ![PairOf(t)] = 0]
                      ELSE UNCHANGED <<db, pendingAge>>
           /\ pc' = [pc EXCEPT ![t] = "clearing"]
           /\ UNCHANGED <<processingLock, pipe, pipeResult, out, conversation, req, aux>>
       ELSE IF LockHeld(KeyOf(t)) THEN
           /\ Respond(t, Reply("contention", 200, "replies", ContentionMessage))
           /\ Forget(t)
           /\ UNCHANGED <<processingLock, db, pendingAge>>
       ELSE
           \* lock set, processMessage started, 4 s timer started
           /\ processingLock' = processingLock \cup {KeyOf(t)}
           /\ pipe' = [pipe EXCEPT ![t] = "running"]
           /\ pc' = [pc EXCEPT ![t] = "race"]
           /\ aux' = [aux EXCEPT ![t] = NoAux]
           /\ UNCHANGED <<db, pendingAge, saveOk, out, conversation, req, pipeResult>>
    /\ UNCHANGED <<processedRequests, timers, sessions, nTurns, cont, conv, bg, inp,
                   histVars, decVars, idVars, brVars, sendVars>>

\* orgController.js:211-218: after `await conversation.save()` of the pending reply
AfterClear(t) ==
    /\ pc[t] = "clearing"
    /\ Respond(t, IF saveOk[t]
                     THEN Reply("pending", 200, "replies", conversation[t].pendingReplyText)
                     ELSE Reply("error", 500, "replies", ErrorMessage))
    /\ Forget(t)
    /\ UNCHANGED <<processedRequests, timers, processingLock, db, pendingAge, sessions,
                   nTurns, cont, conv, bg, inp,
                   histVars, decVars, idVars, brVars, sendVars>>

\* --------------------------------------------------------- the pipeline
\* ragOrchestrationService.js:36-146  processMessage, seen from the coordinator:
\* it finds or creates the Conversation document and resolves with a text.
\* A run that fails (a store error, or a payload without the required
\* activeConversationId) resolves with the apology and may have created
\* nothing; every other text is returned after the document exists.
\* When the continuation is already attached (orgController.js:261-267), its
\* .then callback runs as soon as the promise resolves, up to its
\* `await Conversation.findOne`.
processMessage(t, result, created, found) ==
    /\ pipe[t] = "running"
    /\ result # ErrorMessage => created
    /\ pipe' = [pipe EXCEPT ![t] = "done"]
    /\ pipeResult' = [pipeResult EXCEPT ![t] = result]
    /\ db' = IF created /\ ~db[PairOf(t)].exists
               THEN [db EXCEPT ![PairOf(t)] = NewConv] ELSE db
    /\ IF cont[t] = "armed"
         THEN /\ cont' = [cont EXCEPT ![t] = "findOne"]
              /\ conv' = [conv EXCEPT ![t] = IF found THEN ReadHandles(db'[PairOf(t)]) ELSE DbError]
         ELSE /\ found
              /\ UNCHANGED <<cont, conv>>
    /\ UNCHANGED <<processedRequests, timers, processingLock, pendingAge, sessions,
                   nTurns, req, pc, conversation, saveOk, out, aux, bg, inp,
                   histVars, decVars, idVars, brVars, sendVars>>

\* orgController.js:254, 305-323: Promise.race settles with the pipeline's value
RacePipelineWins(t) ==
    /\ pc[t] = "race"
    /\ pipe[t] = "done"
    /\ Respond(t, Reply("pipeline", 200, "replies", RaceReply(FALSE, pipeResult[t])))
    /\ SyncFinally(t)
    /\ Forget(t)
    /\ UNCHANGED <<processedRequests, timers, db, pendingAge, sessions, nTurns,
                   cont, conv, bg, inp,
                   histVars, decVars, idVars, brVars, sendVars>>

\* orgController.js:245-304, 315-323: the 4 s timer fires while the pipeline is
\* pending; the continuation is attached, the interim reply is sent, and the
\* finally block of the turn runs
RaceTimerWins(t) ==
    /\ pc[t] = "race"
    /\ pipe[t] = "running"
    /\ cont' = [cont EXCEPT ![t] = "armed"]
    /\ Respond(t, Reply("interim", 200, "replies", RaceReply(TRUE, pipeResult[t])))
    /\ SyncFinally(t)
    /\ aux' = [aux EXCEPT ![t] = [NoAux EXCEPT !.syncRel = KeyOf(t) \in processingLock]]
    /\ UNCHANGED <<processedRequests, timers, db, pendingAge, sessions, nTurns, req,
                   pipe, pipeResult, conv, bg, inp,
                   histVars, decVars, idVars, brVars, sendVars>>

\* --------------------------------------------- the background continuation
\* orgController.js:293-296: .finally of the continuation
BgFinally(t, outcome) ==
    /\ processingLock' = processingLock \ {KeyOf(t)}
    /\ cont' = [cont EXCEPT ![t] = "none"]
    /\ bg' = outcome
    /\ conv' = [conv EXCEPT ![t] = NoConv]
    /\ Forget(t)

\* conv.pendingReplyText = finalResult; conv.save() is issued
StorePending(t, ok) ==
    /\ IF ok /\ db[PairOf(t)].exists
         THEN /\ db' = [db EXCEPT ![PairOf(t)].pendingReplyText = pipeResult[t]]
              /\ pendingAge' = [pendingAge EXCEPT ![PairOf(t)] = 0]
         ELSE UNCHANGED <<db, pendingAge>>
    /\ cont' = [cont EXCEPT ![t] = IF ok THEN "saved" ELSE "saveFailed"]
    /\ conv' = [conv EXCEPT ![t] = NoConv]
    /\ UNCHANGED <<req, aux, pipe, pipeResult, bg>>

\* orgController.js:268-288: after `await Conversation.findOne`
ContAfterFind(t) ==
    /\ cont[t] = "findOne"
    /\ IF conv[t] = DbError THEN
           \* .catch, then .finally
           /\ BgFinally(t, "dropped")
           /\ UNCHANGED <<db, pendingAge>>
       ELSE IF CanPush(conv[t]) THEN
           \* salesiqMessageService.sendOperatorMessage is issued
           /\ cont' = [cont EXCEPT ![t] = "pushing"]
           /\ UNCHANGED <<processingLock, db, pendingAge, conv, req, aux, pipe, pipeResult, bg>>
       ELSE IF conv[t].exists THEN
           /\ \E ok \in BOOLEAN : StorePending(t, ok)
           /\ UNCHANGED processingLock
       ELSE
           \* conv is null: nothing is stored
           /\ BgFinally(t, "dropped")
           /\ UNCHANGED <<db, pendingAge>>
    /\ UNCHANGED <<processedRequests, timers, sessions, nTurns, pc, conversation,
                   saveOk, out, inp, histVars, decVars, idVars, brVars, sendVars>>

\* orgController.js:271-281: after `await sendOperatorMessage`, which returns
\* { success } and does not throw
ContAfterPush(t) ==
    /\ cont[t] = "pushing"
    /\ \E success \in BOOLEAN :
          IF success THEN
              /\ BgFinally(t, "pushed")
              /\ UNCHANGED <<db, pendingAge>>
          ELSE
              /\ \E ok \in BOOLEAN : StorePending(t, ok)
              /\ UNCHANGED processingLock
    /\ UNCHANGED <<processedRequests, timers, sessions, nTurns, pc, conversation,
                   saveOk, out, inp, histVars, decVars, idVars, brVars, sendVars>>

\* orgController.js:280/286, 290-296: after `await conv.save()`
ContAfterSave(t) ==
    /\ cont[t] \in {"saved", "saveFailed"}
    /\ BgFinally(t, IF cont[t] = "saved" THEN "stored" ELSE "dropped")
    /\ UNCHANGED <<processedRequests, timers, db, pendingAge, sessions, nTurns, pc,
                   conversation, saveOk, out, inp, histVars, decVars, idVars, brVars, sendVars>>

\* ------------------------------------------------------------------ time
\* time passes while some pending reply is stored: long enough for a reply
\* written just before to be older than the freshness limit
Tick ==
    /\ \E p \in Pairs : db[p].pendingReplyText # Null /\ pendingAge[p] + TickMinutes <= MaxAge
    /\ pendingAge' = [p \in Pairs |->
                        IF db[p].pendingReplyText # Null /\ pendingAge[p] + TickMinutes <= MaxAge
                          THEN pendingAge[p] + TickMinutes ELSE pendingAge[p]]
    /\ UNCHANGED <<processedRequests, timers, processingLock, db, sessions, nTurns, req,
                   pc, conversation, saveOk, pipe, pipeResult, cont, conv, out, aux,
                   bg, inp,
                   histVars, decVars, idVars, brVars, sendVars>>

Next ==
    \/ \E t \in Turns, e \in Events : Receive(t, e)
    \/ \E r \in RequestIds : ExpireRequest(r)
    \/ \E t \in Turns : TriggerDone(t)
    \/ \E t \in Turns : AfterFindOne(t)
    \/ \E t \in Turns : AfterClear(t)
    \/ \E t \in Turns, r \in PipelineResults, c \in BOOLEAN, f \in BOOLEAN :
          processMessage(t, r, c, f)
    \/ \E t \in Turns : RacePipelineWins(t)
    \/ \E t \in Turns : RaceTimerWins(t)
    \/ \E t \in Turns : ContAfterFind(t)
    \/ \E t \in Turns : ContAfterPush(t)
    \/ \E t \in Turns : ContAfterSave(t)
    \/ Tick

Spec == Init /\ [][Next]_vars

\* The pipeline of a turn terminates, and the event loop runs the continuation
\* of a settled race.
Fairness ==
    \A t \in Turns :
        /\ WF_vars(\E r \in PipelineResults, c \in BOOLEAN, f \in BOOLEAN :
                       processMessage(t, r, c, f))
        /\ WF_vars(RacePipelineWins(t))

\* the steps of the turns while no timer of the deduplication set fires (the
\* lock does not depend on the request id of a turn)
LiveNext ==
    \/ \E t \in Turns, e \in Events : Receive(t, e)
    \/ \E t \in Turns : TriggerDone(t)
    \/ \E t \in Turns : AfterFindOne(t)
    \/ \E t \in Turns : AfterClear(t)
    \/ \E t \in Turns, r \in PipelineResults, c \in BOOLEAN, f \in BOOLEAN :
          processMessage(t, r, c, f)
    \/ \E t \in Turns : RacePipelineWins(t)
    \/ \E t \in Turns : RaceTimerWins(t)
    \/ \E t \in Turns : ContAfterFind(t)
    \/ \E t \in Turns : ContAfterPush(t)
    \/ \E t \in Turns : ContAfterSave(t)
    \/ Tick

SpecLive == Init /\ [][LiveNext]_vars /\ Fairness

\* the events of the ingress: a ping that carries a request id, a trigger and
\* a text message of the same visitor under one request id
IngressEvents == {Event("ping", "r2", "o1", "v1"), Event("trigger", "r1", "o1", "v1"),
                  Event("message", "r1", "o1", "v1")}

\* the steps of handleWebhook on these events
IngressNext ==
    \/ \E t \in Turns, e \in IngressEvents : Receive(t, e)
    \/ \E r \in RequestIds : ExpireRequest(r)
    \/ \E t \in Turns : TriggerDone(t)
    \/ \E t \in Turns : AfterFindOne(t)
    \/ \E t \in Turns : AfterClear(t)
    \/ \E t \in Turns, r \in PipelineResults, c \in BOOLEAN, f \in BOOLEAN :
          processMessage(t, r, c, f)
    \/ \E t \in Turns : RacePipelineWins(t)
    \/ \E t \in Turns : RaceTimerWins(t)
    \/ \E t \in Turns : ContAfterFind(t)
    \/ \E t \in Turns : ContAfterPush(t)
    \/ \E t \in Turns : ContAfterSave(t)
    \/ Tick

SpecIngress == Init /\ [][IngressNext]_vars

\* one event of every kind handled by handleWebhook, and two text messages
\* of one visitor under different request ids
ResponseEvents == {Event("ping", "r2", "o1", "v1"), Event("trigger", "r1", "o1", "v1"),
                   Event("message", "r1", "o1", "v1"), Event("message", "r2", "o1", "v1"),
                   Event("other", NoId, "o1", "v1")}

\* the steps of handleWebhook on these events
ResponseNext ==
    \/ \E t \in Turns, e \in ResponseEvents : Receive(t, e)
    \/ \E r \in RequestIds : ExpireRequest(r)
    \/ \E t \in Turns : TriggerDone(t)
    \/ \E t \in Turns : AfterFindOne(t)
    \/ \E t \in Turns : AfterClear(t)
    \/ \E t \in Turns, r \in PipelineResults, c \in BOOLEAN, f \in BOOLEAN :
          processMessage(t, r, c, f)
    \/ \E t \in Turns : RacePipelineWins(t)
    \/ \E t \in Turns : RaceTimerWins(t)
    \/ \E t \in Turns : ContAfterFind(t)
    \/ \E t \in Turns : ContAfterPush(t)
    \/ \E t \in Turns : ContAfterSave(t)
    \/ Tick

SpecResponse == Init /\ [][ResponseNext]_vars

\* the same steps when a pending reply is stored as the events arrive
SpecPending == InitPending /\ [][ResponseNext]_vars

\* the steps of handleWebhook on the events of KeyEvents
KeysNext ==
    \/ \E t \in Turns, e \in KeyEvents : Receive(t, e)
    \/ \E r \in RequestIds : ExpireRequest(r)
    \/ \E t \in Turns : TriggerDone(t)
    \/ \E t \in Turns : AfterFindOne(t)
    \/ \E t \in Turns : AfterClear(t)
    \/ \E t \in Turns, r \in PipelineResults, c \in BOOLEAN, f \in BOOLEAN :
          processMessage(t, r, c, f)
    \/ \E t \in Turns : RacePipelineWins(t)
    \/ \E t \in Turns : RaceTimerWins(t)
    \/ \E t \in Turns : ContAfterFind(t)
    \/ \E t \in Turns : ContAfterPush(t)
    \/ \E t \in Turns : ContAfterSave(t)
    \/ Tick

SpecKeys == Init /\ [][KeysNext]_vars

\* ------------------------------------------------ Conversation.messages
Roles == {"user", "bot"}
Texts == {"hello"}

\* Array.prototype.slice(-n)
SliceLast(seq, n) ==
    IF Len(seq) <= n THEN seq ELSE SubSeq(seq, Len(seq) - n + 1, Len(seq))

\* Conversation.js:241-251  conversationSchema.methods.addMessage
\* (timestamp: new Date() is the position of the call in time)
addMessageKeepOldest(msgs, role, text, now) ==
    LET pushed == Append(msgs, [role |-> role, text |-> text, timestamp |-> now])
    IN IF Len(pushed) > MaxMessages THEN SubSeq(pushed, 1, MaxMessages) ELSE pushed

addMessage(msgs, role, text, now) ==
    LET pushed == Append(msgs, [role |-> role, text |-> text, timestamp |-> now])
    IN IF Len(pushed) > MaxMessages THEN SliceLast(pushed, MaxMessages) ELSE pushed

AddMessage(role, text) ==
    /\ Len(added) < MaxAdds
    /\ messages' = addMessage(messages, role, text, Len(added) + 1)
    /\ added' = Append(added, [role |-> role, text |-> text, timestamp |-> Len(added) + 1])
    /\ UNCHANGED <<coordVars, decVars, idVars, brVars, sendVars>>

HistNext == \E role \in Roles, text \in Texts : AddMessage(role, text)

SpecHistory == Init /\ [][HistNext]_vars

\* ============================================== the pipeline, step by step
\* One processMessage invocation at a time on the conversation of one visitor
\* (ragOrchestrationService.js), with handleDecision and executeApiCall.
\* Every awaited call of a collaborator may throw.

\* Array.prototype.filter(p => p !== 'userId')   ragOrchestrationService.js:358
WithoutUserIdKeepsAll(list) == list

WithoutUserId(list) == SelectSeq(list, LAMBDA p : p # "userId")

\* Array.prototype.join(' and ')
RECURSIVE JoinAnd(_)
JoinAnd(list) ==
    IF Len(list) = 0 THEN ""
    ELSE IF Len(list) = 1 THEN list[1]
    ELSE list[1] \o " and " \o JoinAnd(Tail(list))

\* ragOrchestrationService.js:367
MissingReply(d) ==
    IF d.clarification_question # "" THEN d.clarification_question
    ELSE "I can help with that, but I need a bit more info. Could you provide your "
            \o JoinAnd(d.missing_parameters) \o "?"

\* ragOrchestrationService.js:395
LowConfidenceReply(d) ==
    IF d.clarification_question # "" THEN d.clarification_question
    ELSE "I think you want to " \o Reasoning
            \o ", but I'm not entirely sure. Can you please clarify?"

\* ragOrchestrationService.js:333   !decision.call_api
IsConversationalNever(d) == FALSE

IsConversational(d) == ~d.call_api

\* ragOrchestrationService.js:339, 365   missing_parameters.length > 0
HasMissingNever(d) == FALSE

HasMissing(d) == Len(d.missing_parameters) > 0

\* ragOrchestrationService.js:343   missing_parameters.includes('userId')
MissesUserId(d) == \E i \in 1 .. Len(d.missing_parameters) : d.missing_parameters[i] = "userId"

\* ragOrchestrationService.js:374   decision.confidence >= this.confidenceThreshold
HighConfidenceStrict(d) == d.confidence > confidenceThreshold

HighConfidence(d) == d.confidence >= confidenceThreshold

\* ragOrchestrationService.js:393   clarificationAttempts < maxClarificationAttempts
AttemptsRemainInclusive(c) == c.clarificationAttempts <= maxClarificationAttempts

AttemptsRemain(c) == c.clarificationAttempts < maxClarificationAttempts

\* ragOrchestrationService.js:108   candidates.length === 0
NoCandidatesNever(n) == FALSE

NoCandidates(n) == n = 0

\* Conversation.js:260-263, 266-269: the assignment; save() is awaited by the caller
resetClarificationAttempts(c) == [c EXCEPT !.clarificationAttempts = 0]
incrementClarificationAttempts(c) == [c EXCEPT !.clarificationAttempts = @ + 1]

\* Mongoose save() writes the paths of the schema; `resolvedParameters` is
\* not one of them (Conversation.js:136-234)
Persisted(c) == [c EXCEPT !.resolvedParameters = NoIds]

\* Organization.js:92-103  isTokenValid (an access token is always configured here)
IsTokenValidAlways(org) == TRUE

IsTokenValid(org) == ~org.expired

\* ragOrchestrationService.js:142-145: the catch block of processMessage
CatchBlockRethrows == [state |-> "rejected", text |-> ""]

CatchBlock == [state |-> "fulfilled", text |-> ErrorMessage]

\* part_013:46-84: the message of a result of executeApiCall
ResultMessage(result) ==
    CASE result = "success" -> ActionDone
      [] result = "AUTH_ERROR" -> AuthFailedMessage
      [] OTHER -> ActionFailedMessage

\* an awaited call threw inside the try block of processMessage
ThrowAfter(saved) ==
    /\ ppc' = "done"
    /\ settled' = CatchBlock
    /\ obs' = [obs EXCEPT !.fault = TRUE, !.appended = saved]
    /\ streak' = <<>>

Throw == ThrowAfter(obs.appended)

\* Conversation.js:241-251: the messages that the calls addMessage('user',
\* userMessage), addMessage('bot', text) have pushed and saved when the first
\* `saves` of their save() calls succeed
TwoMessages(m, text) == <<[role |-> "user", text |-> m], [role |-> "bot", text |-> text]>>

SavedMessages(m, text, saves) ==
    SubSeq(TwoMessages(m, text), 1, IF saves < 2 THEN saves ELSE 2)

\* ragOrchestrationService.js:82, 96, 114, 140: return of processMessage
ReturnText(text, saved) ==
    /\ ppc' = "done"
    /\ settled' = [state |-> "fulfilled", text |-> text]
    /\ streak' = IF /\ obs.returned.call_api
                    /\ ~HasMissing(obs.returned)
                    /\ ~HighConfidence(obs.returned)
                   THEN Append(streak, [before |-> obs.before, text |-> text,
                                        after |-> convStore.clarificationAttempts])
                   ELSE <<>>
    /\ obs' = [obs EXCEPT !.appended = saved]

\* ragOrchestrationService.js:373-400: the confidence test of handleDecision,
\* up to the save() it awaits
ConfidenceGate(d, c) ==
    IF HighConfidence(d) THEN
        /\ doc' = resetClarificationAttempts(c)
        /\ ppc' = "resetHigh"
    ELSE IF AttemptsRemain(c) THEN
        /\ doc' = incrementClarificationAttempts(c)
        /\ ppc' = "incrementLow"
    ELSE
        /\ doc' = resetClarificationAttempts(c)
        /\ ppc' = "resetLow"

\* ragOrchestrationService.js:331-371: handleDecision up to its first await
handleDecision(d, c) ==
    IF IsConversational(d) THEN
        /\ doc' = resetClarificationAttempts(c)
        /\ ppc' = "resetConversational"
        /\ UNCHANGED counts
    ELSE IF HasMissing(d) THEN
        IF MissesUserId(d) /\ c.email
          THEN /\ ppc' = "resolve"
               /\ counts' = [counts EXCEPT !.resolve = @ + 1]
               /\ UNCHANGED doc
          ELSE /\ doc' = incrementClarificationAttempts(c)
               /\ ppc' = "incrementMissing"
               /\ UNCHANGED counts
    ELSE
        /\ ConfidenceGate(d, c)
        /\ UNCHANGED counts

\* ------------------------------------------------------------ isGreeting
\* the userMessage texts of the turns
UserMessages == {"Hi", " hey there ", "Hi, can you cancel my order?"}

UpperCase == "ABCDEFGHIJKLMNOPQRSTUVWXYZ"
LowerCase == "abcdefghijklmnopqrstuvwxyz"
Char(s, i) == SubSeq(s, i, i)

\* String.prototype.toLowerCase
RECURSIVE toLowerCase(_)
toLowerCase(s) ==
    IF s = "" THEN ""
    ELSE LET c == Char(s, 1)
             lower == IF \E i \in 1 .. Len(UpperCase) : Char(UpperCase, i) = c
                        THEN Char(LowerCase,
                                  CHOOSE i \in 1 .. Len(UpperCase) : Char(UpperCase, i) = c)
                        ELSE c
         IN lower \o toLowerCase(SubSeq(s, 2, Len(s)))

\* String.prototype.trim (the texts hold no white space but the blank)
RECURSIVE trim(_)
trim(s) ==
    IF s = "" THEN ""
    ELSE IF Char(s, 1) = " " THEN trim(SubSeq(s, 2, Len(s)))
    ELSE IF Char(s, Len(s)) = " " THEN trim(SubSeq(s, 1, Len(s) - 1))
    ELSE s

\* String.prototype.includes, String.prototype.startsWith
includes(s, part) ==
    \E i \in 1 .. (Len(s) - Len(part) + 1) : SubSeq(s, i, i + Len(part) - 1) = part
startsWith(s, part) == Len(s) >= Len(part) /\ SubSeq(s, 1, Len(part)) = part

\* ragOrchestrationService.js:152-157
greetings == {"hi", "hello", "hey", "greetings", "good morning", "good afternoon",
              "good evening", "howdy", "sup", "yo", "what's up", "whats up"}
questionWords == {"what", "how", "why", "when", "where", "who", "which", "can", "could",
                  "would", "should", "is", "are", "do", "does"}
ShortMessage == 20

\* ragOrchestrationService.js:151-184
isGreeting(message) ==
    LET lowerMessage == trim(toLowerCase(message))
        startsWithGreeting ==
            \E g \in greetings : \/ startsWith(lowerMessage, g \o " ")
                                  \/ startsWith(lowerMessage, g \o ",")
                                  \/ lowerMessage = g
    IN IF \E q \in questionWords : \/ includes(lowerMessage, " " \o q \o " ")
                                    \/ includes(lowerMessage, q \o " ")
         THEN FALSE
       ELSE IF Len(lowerMessage) < ShortMessage /\ lowerMessage \in greetings THEN TRUE
       ELSE IF startsWithGreeting /\ Len(lowerMessage) < ShortMessage THEN TRUE
       ELSE FALSE

\* ragOrchestrationService.js:77  this.isGreeting(userMessage), for each text
Classified == [m \in UserMessages |-> isGreeting(m)]

\* ragOrchestrationService.js:36-50: entry of processMessage
StartTurn(userMessage) ==
    /\ ppc \in {"idle", "done"}
    /\ nRuns < MaxRuns
    /\ nRuns' = nRuns + 1
    /\ ppc' = "findOne"
    /\ doc' = NoDoc
    /\ decision' = ErrorDecision
    /\ resp' = ""
    /\ settled' = Pending
    /\ counts' = NoCounts
    /\ ex' = NoEx
    /\ obs' = [NoObs EXCEPT !.before = convStore.clarificationAttempts,
                            !.message = userMessage,
                            !.resolvedEarlier = obs.resolvedEarlier \/ obs.resolved,
                            !.greeting = Classified[userMessage]]
    /\ UNCHANGED <<convStore, orgStore, streak, coordVars, histVars, idVars, brVars, sendVars>>

\* ragOrchestrationService.js:77, 86: the branch on isGreeting(userMessage)
AfterLoadNeverGreets(greeting) == "getIndex"

AfterLoad(greeting) == IF greeting THEN "greeting" ELSE "getIndex"

\* ragOrchestrationService.js:50-90: after `await Conversation.findOne`; a
\* missing document is created (activeConversationId is a required field;
\* userDetails.email is the visitor's email, when the payload carries one)
AfterFindConversation(ok, hasActiveId, email) ==
    /\ ppc = "findOne"
    /\ IF ~ok \/ (~convStore.exists /\ ~hasActiveId) THEN
           /\ Throw
           /\ UNCHANGED <<convStore, doc>>
       ELSE
           /\ convStore' = IF convStore.exists THEN convStore
                            ELSE [NoDoc EXCEPT !.exists = TRUE, !.email = email]
           /\ doc' = convStore'
           /\ ppc' = AfterLoad(obs.greeting)
           /\ UNCHANGED <<settled, obs, streak>>
    /\ UNCHANGED <<orgStore, nRuns, decision, resp, counts, ex, coordVars, histVars, idVars, brVars, sendVars>>

\* ragOrchestrationService.js:77-83: the greeting branch: generateGreeting, which
\* returns a text on every path (salesiqOauthService.js:251-274), and the two
\* addMessage, of which the first `saves` save the document
AfterGreeting(saves) ==
    /\ ppc = "greeting"
    /\ LET saved == SavedMessages(obs.message, GreetingText, saves) IN
       IF saves = 2 THEN /\ ReturnText(GreetingText, saved)
                         /\ resp' = GreetingText
                    ELSE /\ ThrowAfter(saved)
                         /\ UNCHANGED resp
    /\ UNCHANGED <<convStore, orgStore, nRuns, doc, decision, counts, ex,
                   coordVars, histVars, idVars, brVars, sendVars>>

\* ragOrchestrationService.js:90-106: after `await this.getActiveApiIndex`
AfterGetIndex(ok, found) ==
    /\ ppc = "getIndex"
    /\ IF ~ok THEN
           /\ Throw
           /\ UNCHANGED <<resp, counts>>
       ELSE IF ~found THEN
           /\ resp' = NoDocsMessage
           /\ ppc' = "history"
           /\ UNCHANGED <<settled, obs, streak, counts>>
       ELSE
           /\ ppc' = "search"
           /\ counts' = [counts EXCEPT !.search = @ + 1]
           /\ UNCHANGED <<settled, obs, streak, resp>>
    /\ UNCHANGED <<convStore, orgStore, nRuns, doc, decision, ex, coordVars, histVars, idVars, brVars, sendVars>>

\* ragOrchestrationService.js:101-124, 201-242: after `await performVectorSearch`,
\* which returns [] when the search throws
AfterSearch(ok, n) ==
    /\ ppc = "search"
    /\ LET candidates == IF ok THEN n ELSE 0 IN
       /\ obs' = [obs EXCEPT !.candidates = candidates, !.searchThrew = ~ok]
       /\ IF NoCandidates(candidates)
            THEN /\ ppc' = "noMatch"
                 /\ resp' = NoMatchMessage
                 /\ doc' = resetClarificationAttempts(doc)
                 /\ UNCHANGED counts
            ELSE /\ ppc' = "decide"
                 /\ counts' = [counts EXCEPT !.decide = @ + 1]
                 /\ UNCHANGED <<resp, doc>>
    /\ UNCHANGED <<convStore, orgStore, nRuns, decision, settled, ex, streak,
                   coordVars, histVars, idVars, brVars, sendVars>>

\* ragOrchestrationService.js:111-114: the two addMessage and the reset of the
\* no-match branch
AfterNoMatch(saves) ==
    /\ ppc = "noMatch"
    /\ LET saved == SavedMessages(obs.message, resp, saves) IN
       IF saves = 3 THEN /\ convStore' = Persisted(doc)
                         /\ ReturnText(resp, saved)
                    ELSE /\ ThrowAfter(saved)
                         /\ UNCHANGED convStore
    /\ UNCHANGED <<orgStore, nRuns, doc, decision, resp, counts, ex, coordVars, histVars, idVars, brVars, sendVars>>

\* ragOrchestrationService.js:253-262: what the reasoning call comes to: a text
\* that JSON.parse turns into a decision, a call that throws, a text that is
\* no JSON
DecideOutcomes == {"decision", "callFailed", "notJson"}

\* ragOrchestrationService.js:247-273  decideEndpoint: the parsed decision, or
\* the decision of the catch block
decideEndpointNoCatch(outcome, d) == d

decideEndpoint(outcome, d) == IF outcome = "decision" THEN d ELSE ErrorDecision

\* ragOrchestrationService.js:120-134: after `await decideEndpoint`
AfterDecide(outcome, d) ==
    /\ ppc = "decide"
    /\ LET returned == decideEndpoint(outcome, d) IN
       /\ decision' = returned
       /\ obs' = [obs EXCEPT !.returned = returned, !.decide = outcome]
       /\ handleDecision(returned, doc)
    /\ UNCHANGED <<convStore, orgStore, nRuns, resp, settled, ex, streak,
                   coordVars, histVars, idVars, brVars, sendVars>>

\* part_014:35   conversation.resolvedParameters &&
\*               conversation.resolvedParameters.get('userId')
HasCachedUserId(c) == c.resolvedParameters["userId"] # Null

\* part_014:95-149: what findResolverEndpoint comes to: an endpoint, no search
\* result, no endpoint spec among the results, a reasoning text that is no
\* JSON, a decision that is no resolver, a call that throws
FindOutcomes == {"endpoint", "noResults", "noCandidates", "notJson", "notResolver",
                 "threw"}

\* part_014:47   !resolverEndpoint  (every outcome but an endpoint is null)
NoResolverEndpointNever(found) == FALSE

NoResolverEndpoint(found) == found # "endpoint"

\* part_014:190-238: extractUserId over the shapes of a response body: nothing,
\* a string, an object with an identity field of its own, of its `user` or of
\* its `customer`, an object with none, a list whose first element has one,
\* an empty list
ResolverData == {"null", "string", "direct", "user", "customer", "noField", "list",
                 "emptyList"}
extractUserId(data) == IF data \in {"null", "noField", "emptyList"} THEN Null ELSE "u1"

\* ragOrchestrationService.js:355-371: after `await tryResolveUserId` returned
\* resolvedUserId (Null: null) to handleDecision; c is the document then
AfterResolve(resolvedUserId, c, step) ==
    /\ LET d == IF resolvedUserId # Null
                  THEN [decision EXCEPT
                          !.missing_parameters = WithoutUserId(@)]
                  ELSE decision IN
       /\ decision' = d
       /\ IF HasMissing(d)
            THEN /\ doc' = incrementClarificationAttempts(c)
                 /\ ppc' = "incrementMissing"
            ELSE ConfidenceGate(d, c)
    /\ obs' = [obs EXCEPT !.resolved = resolvedUserId # Null, !.resolver = step,
                            !.found = IF step \in FindOutcomes THEN step ELSE @]

\* part_014:30-60: tryResolveUserId up to `await executeApiCall`, after
\* `await this.findResolverEndpoint`
tryResolveUserId(found) ==
    /\ ppc = "resolve"
    /\ IF HasCachedUserId(doc) THEN
           /\ AfterResolve(doc.resolvedParameters["userId"], doc, "cached")
           /\ UNCHANGED ex
       ELSE IF NoResolverEndpoint(found) THEN
           /\ AfterResolve(Null, doc, found)
           /\ UNCHANGED ex
       ELSE
           \* apiExecutorService.executeApiCall is called with { email }
           /\ ppc' = "resolverCall"
           /\ ex' = [NoEx EXCEPT !.pc = "getEndpointSpec"]
           /\ obs' = [obs EXCEPT !.resolver = "called", !.found = found]
           /\ UNCHANGED <<doc, decision>>
    /\ UNCHANGED <<convStore, orgStore, nRuns, resp, settled, counts, streak,
                   coordVars, histVars, idVars, brVars, sendVars>>

\* part_014:62-78: after `await apiExecutorService.executeApiCall` of the
\* resolver endpoint, up to `await conversation.save()`
AfterResolverCall(data) ==
    /\ ppc = "resolverCall"
    /\ ex.pc = "done"
    /\ IF ex.result # "success" THEN
           AfterResolve(Null, doc, "callFailed")
       ELSE IF extractUserId(data) = Null THEN
           AfterResolve(Null, doc, "noIdentity")
       ELSE
           /\ doc' = [doc EXCEPT !.resolvedParameters["userId"] = extractUserId(data)]
           /\ ppc' = "resolverSave"
           /\ obs' = [obs EXCEPT !.resolver = "extracted"]
           /\ UNCHANGED decision
    /\ UNCHANGED <<convStore, orgStore, nRuns, resp, settled, counts, ex, streak,
                   coordVars, histVars, idVars, brVars, sendVars>>

\* part_014:78-89: after `await conversation.save()`; a rejected save is
\* caught and null is returned
AfterResolverSave(ok) ==
    /\ ppc = "resolverSave"
    /\ IF ok THEN /\ convStore' = Persisted(doc)
                  /\ AfterResolve(doc.resolvedParameters["userId"], doc, "resolved")
             ELSE /\ UNCHANGED convStore
                  /\ AfterResolve(Null, doc, "saveFailed")
    /\ UNCHANGED <<orgStore, nRuns, resp, settled, counts, ex, streak,
                   coordVars, histVars, idVars, brVars, sendVars>>

\* ragOrchestrationService.js:334-335, 366-367, 376-378, 394-395, 399-400:
\* after the `await` of the save() of the counter
AfterCounterSave(ok) ==
    /\ ppc \in {"resetConversational", "incrementMissing", "resetHigh",
                "incrementLow", "resetLow"}
    /\ IF ~ok THEN
           /\ Throw
           /\ UNCHANGED <<convStore, resp, counts, ex>>
       ELSE
           /\ convStore' = Persisted(doc)
           /\ UNCHANGED <<settled, obs, streak>>
           /\ IF ppc = "resetHigh"
                THEN \* apiExecutorService.executeApiCall is called
                     /\ ppc' = "execute"
                     /\ counts' = [counts EXCEPT !.action = @ + 1]
                     /\ ex' = [NoEx EXCEPT !.pc = "getEndpointSpec"]
                     /\ UNCHANGED resp
                ELSE /\ ppc' = "history"
                     /\ resp' = CASE ppc = "resetConversational" -> ConversationalReply
                                  [] ppc = "incrementMissing" -> MissingReply(decision)
                                  [] ppc = "incrementLow" -> LowConfidenceReply(decision)
                                  [] OTHER -> RephraseMessage
                     /\ UNCHANGED <<counts, ex>>
    /\ UNCHANGED <<orgStore, nRuns, doc, decision, coordVars, histVars, idVars, brVars, sendVars>>

\* ------------------------------------------------------- executeApiCall
\* part_013:53-85: the catch block of executeApiCall
ExFail(error) == ex' = [ex EXCEPT !.pc = "done", !.result = error]

\* part_013:24-30, 91-99: after `await this.getEndpointSpec`
ExAfterGetEndpointSpec(found) ==
    /\ ex.pc = "getEndpointSpec"
    /\ IF found THEN ex' = [ex EXCEPT !.pc = "getOAuthToken"]
                ELSE ExFail("EXECUTION_ERROR")
    /\ UNCHANGED <<convStore, orgStore, nRuns, ppc, doc, decision, resp, settled,
                   counts, obs, streak, coordVars, histVars, idVars, brVars, sendVars>>

\* part_013:104-144: getOAuthToken after `await Organization.findOne`
ExGetOAuthToken ==
    /\ ex.pc = "getOAuthToken"
    /\ LET checked == [ex EXCEPT !.expired = orgStore.expired,
                                  !.old = orgStore.accessToken] IN
       IF IsTokenValid(orgStore) THEN
           ex' = [checked EXCEPT !.pc = "request", !.token = orgStore.accessToken]
       ELSE IF orgStore.refreshToken = "none" THEN
           \* 'Cannot refresh token: missing refresh token or refresh URL'
           ex' = [checked EXCEPT !.pc = "done", !.result = "EXECUTION_ERROR"]
       ELSE
           \* axios.post(tokenRefreshUrl, ...) is issued
           ex' = [checked EXCEPT !.pc = "refresh", !.refreshes = @ + 1]
    /\ UNCHANGED <<convStore, orgStore, nRuns, ppc, doc, decision, resp, settled,
                   counts, obs, streak, coordVars, histVars, idVars, brVars, sendVars>>

\* part_013:135-155, Organization.js:105-117: after the refresh request; the
\* granted token is written with updateOAuthToken (expiresAt is moved only
\* when the grant carries expires_in)
ExAfterRefresh(ok, expiresIn) ==
    /\ ex.pc = "refresh"
    /\ expiresIn \/ orgStore.accessToken < MaxTokens
    /\ IF orgStore.refreshToken = "valid" THEN
           IF ok THEN
               /\ orgStore' = [orgStore EXCEPT !.accessToken = @ + 1,
                                               !.expired = ~expiresIn]
               /\ ex' = [ex EXCEPT !.pc = "request", !.persisted = TRUE,
                                   !.token = orgStore.accessToken + 1]
           ELSE
               \* org.save() rejects: 'OAuth token refresh failed'
               /\ ex' = [ex EXCEPT !.pc = "done", !.result = "AUTH_ERROR", !.fault = TRUE]
               /\ UNCHANGED orgStore
       ELSE
           \* the grant is refused: 'OAuth token refresh failed'
           /\ ExFail("AUTH_ERROR")
           /\ UNCHANGED orgStore
    /\ UNCHANGED <<convStore, nRuns, ppc, doc, decision, resp, settled,
                   counts, obs, streak, coordVars, histVars, idVars, brVars, sendVars>>

\* what `await axios(request)` comes to: a response with a 2xx status, an
\* error that carries the response of the upstream (401, 503), an error
\* without a response (no connection)
HttpOutcomes == {"2xx", "401", "503", "network"}

\* part_013:46-84: the result of executeApiCall for an outcome of the request
Classify(outcome) ==
    CASE outcome = "2xx" -> "success"
      [] outcome \in {"401", "503"} -> "API_ERROR"
      [] OTHER -> "EXECUTION_ERROR"

\* part_013:33-51: after `await Organization.findOne` and `await axios(request)`
ExAfterRequest(outcome) ==
    /\ ex.pc = "request"
    /\ ex' = [ex EXCEPT !.pc = "done", !.outbound = @ + 1, !.http = outcome,
                        !.result = Classify(outcome)]
    /\ UNCHANGED <<convStore, orgStore, nRuns, ppc, doc, decision, resp, settled,
                   counts, obs, streak, coordVars, histVars, idVars, brVars, sendVars>>

\* ragOrchestrationService.js:378-389: after `await executeApiCall`
AfterExecute ==
    /\ ppc = "execute"
    /\ ex.pc = "done"
    /\ resp' = ResultMessage(ex.result)
    /\ ppc' = "history"
    /\ UNCHANGED <<convStore, orgStore, nRuns, doc, decision, settled, counts, ex,
                   obs, streak, coordVars, histVars, idVars, brVars, sendVars>>

\* ragOrchestrationService.js:94-96, 137-140: the two addMessage, then return
AfterHistory(saves) ==
    /\ ppc = "history"
    /\ LET saved == SavedMessages(obs.message, resp, saves) IN
       IF saves = 2 THEN ReturnText(resp, saved) ELSE ThrowAfter(saved)
    /\ UNCHANGED <<convStore, orgStore, nRuns, doc, decision, resp, counts, ex,
                   coordVars, histVars, idVars, brVars, sendVars>>

\* Organization.js:101: the expiry time of the access token passes
TokenExpires ==
    /\ ~orgStore.expired
    /\ orgStore.accessToken < MaxTokens
    /\ orgStore' = [orgStore EXCEPT !.expired = TRUE]
    /\ UNCHANGED <<convStore, nRuns, ppc, doc, decision, resp, settled, counts, ex,
                   obs, streak, coordVars, histVars, idVars, brVars, sendVars>>

\* the tenant's refresh token is revoked, or removed from the record
RefreshTokenLost(v) ==
    /\ orgStore.refreshToken = "valid"
    /\ orgStore' = [orgStore EXCEPT !.refreshToken = v]
    /\ UNCHANGED <<convStore, nRuns, ppc, doc, decision, resp, settled, counts, ex,
                   obs, streak, coordVars, histVars, idVars, brVars, sendVars>>

DecisionNext ==
    \/ \E m \in UserMessages : StartTurn(m)
    \/ \E ok \in BOOLEAN, a \in BOOLEAN, e \in BOOLEAN : AfterFindConversation(ok, a, e)
    \/ \E saves \in 0 .. 2 : AfterGreeting(saves)
    \/ \E ok \in BOOLEAN, f \in BOOLEAN : AfterGetIndex(ok, f)
    \/ \E ok \in BOOLEAN, n \in {0, 2} : AfterSearch(ok, n)
    \/ \E saves \in 0 .. 3 : AfterNoMatch(saves)
    \/ \E o \in DecideOutcomes, d \in Decisions : AfterDecide(o, d)
    \/ \E f \in FindOutcomes : tryResolveUserId(f)
    \/ \E data \in ResolverData : AfterResolverCall(data)
    \/ \E ok \in BOOLEAN : AfterResolverSave(ok)
    \/ \E ok \in BOOLEAN : AfterCounterSave(ok)
    \/ \E f \in BOOLEAN : ExAfterGetEndpointSpec(f)
    \/ ExGetOAuthToken
    \/ \E ok \in BOOLEAN, x \in BOOLEAN : ExAfterRefresh(ok, x)
    \/ \E o \in HttpOutcomes : ExAfterRequest(o)
    \/ AfterExecute
    \/ \E saves \in 0 .. 2 : AfterHistory(saves)
    \/ TokenExpires
    \/ \E v \in {"invalid", "none"} : RefreshTokenLost(v)

SpecDecision == Init /\ [][DecisionNext]_vars

\* ============================================== the maps of known ids
\* The methods that read and write the resolved parameters of one
\* conversation (Conversation.js:304-361, redisService.js, part_014:67-81),
\* called one after the other in any order on the document of convStore.

\* Map.prototype.set(key, value)   Conversation.js:333, part_014:77
MapSetReplaces(map, key, value) == [NoIds EXCEPT ![key] = value]

MapSet(map, key, value) == [map EXCEPT ![key] = value]

\* Conversation.js:315, 344, 352   this.knownIds && this.knownIds.size > 0
HasKnownIds(c) == \E k \in IdKeys : c.knownIds[k] # Null

\* redisService.js:110-128: updateKnownId merges one field into the stored
\* object; without a connection, or when a command fails, nothing is written
updateKnownId(stored, connected, commandOk, key, value) ==
    IF connected /\ commandOk
      THEN Entry(MapSet(stored.value, key, value))
      ELSE stored

\* redisService.js:87-101: setKnownIds replaces the stored object
setKnownIds(stored, connected, commandOk, obj) ==
    IF connected /\ commandOk THEN Entry(obj) ELSE stored

\* ragOrchestrationService.js:50-74: a handler loads the conversation, and
\* creates it when there is none
LoadConversation(email) ==
    /\ convStore' = IF convStore.exists THEN convStore
                     ELSE [NoDoc EXCEPT !.exists = TRUE, !.email = email]
    /\ doc' = convStore'
    /\ UNCHANGED <<orgStore, nRuns, ppc, decision, resp, settled, counts, ex, obs,
                   streak, coordVars, histVars, idVars, brVars, sendVars>>

\* Conversation.js:326-340: setKnownId; a rejected save() leaves the method
\* before Redis is updated
setKnownId(key, value, saveOk_, commandOk) ==
    /\ doc.exists
    /\ nSets < MaxSets
    /\ nSets' = nSets + 1
    /\ doc' = [doc EXCEPT !.knownIds = MapSet(@, key, value)]
    /\ IF saveOk_
         THEN /\ convStore' = Persisted(doc')
              /\ redisKnownIds' = updateKnownId(redisKnownIds, isConnected, commandOk,
                                                key, value)
         ELSE UNCHANGED <<convStore, redisKnownIds>>
    /\ UNCHANGED <<isConnected, known, orgStore, nRuns, ppc, decision, resp, settled,
                   counts, ex, obs, streak, coordVars, histVars, brVars, sendVars>>

\* part_014:67-81: tryResolveUserId after a successful resolver call: the
\* extracted userId is set on the document, which is saved
ResolveAndCache(data, saveOk_) ==
    /\ doc.exists
    /\ extractUserId(data) # Null
    /\ doc' = [doc EXCEPT !.resolvedParameters = MapSet(@, "userId", extractUserId(data))]
    /\ IF saveOk_ THEN convStore' = Persisted(doc') ELSE UNCHANGED convStore
    /\ UNCHANGED <<orgStore, nRuns, ppc, decision, resp, settled, counts, ex, obs,
                   streak, coordVars, histVars, idVars, brVars, sendVars>>

\* Conversation.js:305-323: getKnownIds: Redis first, then the document,
\* which is copied to Redis
getKnownIds(commandOk) ==
    /\ doc.exists
    /\ LET cachedIds == IF isConnected /\ commandOk THEN redisKnownIds ELSE NoEntry IN
       IF cachedIds.stored THEN
           /\ known' = cachedIds.value
           /\ UNCHANGED redisKnownIds
       ELSE IF HasKnownIds(doc) THEN
           /\ known' = doc.knownIds
           /\ redisKnownIds' = setKnownIds(redisKnownIds, isConnected, commandOk,
                                           doc.knownIds)
       ELSE
           /\ known' = NoIds
           /\ UNCHANGED redisKnownIds
    /\ UNCHANGED <<isConnected, nSets, decVars, coordVars, histVars, brVars, sendVars>>

\* Conversation.js:351-361: syncKnownIdsToRedis
syncKnownIdsToRedis(commandOk) ==
    /\ doc.exists
    /\ HasKnownIds(doc)
    /\ redisKnownIds' = setKnownIds(redisKnownIds, isConnected, commandOk, doc.knownIds)
    /\ UNCHANGED <<isConnected, known, nSets, decVars, coordVars, histVars, brVars, sendVars>>

\* redisService.js:135-148: deleteKnownIds, and the expiry of the key after
\* defaultTTL (redisService.js:13, 95)
deleteKnownIds ==
    /\ redisKnownIds.stored
    /\ isConnected
    /\ redisKnownIds' = NoEntry
    /\ UNCHANGED <<isConnected, known, nSets, decVars, coordVars, histVars, brVars, sendVars>>

\* redisService.js:35-48: the 'connect', 'error' and 'close' events
RedisConnection(up) ==
    /\ isConnected # up
    /\ isConnected' = up
    /\ UNCHANGED <<redisKnownIds, known, nSets, decVars, coordVars, histVars, brVars, sendVars>>

KnownIdsNext ==
    \/ \E e \in BOOLEAN : LoadConversation(e)
    \/ \E k \in IdKeys, v \in IdValues, s \in BOOLEAN, c \in BOOLEAN : setKnownId(k, v, s, c)
    \/ \E data \in ResolverData, s \in BOOLEAN : ResolveAndCache(data, s)
    \/ \E c \in BOOLEAN : getKnownIds(c)
    \/ \E c \in BOOLEAN : syncKnownIdsToRedis(c)
    \/ deleteKnownIds
    \/ \E up \in BOOLEAN : RedisConnection(up)

SpecKnownIds == Init /\ [][KnownIdsNext]_vars

\* ======================================================== buildRequest
\* ApiExecutorService.buildRequest (part_013:161-227) applied to the endpoint
\* specs and the parameter objects of the input sets.

\* String.prototype.toUpperCase on the method names
toUpperCase(m) ==
    CASE m = "post" -> "POST"
      [] m = "patch" -> "PATCH"
      [] OTHER -> m

\* part_013:201   ['POST', 'PUT', 'PATCH'].includes(endpoint.method.toUpperCase())
IsWrite(e) == toUpperCase(e.method) \in {"POST", "PUT", "PATCH"}

\* part_013:168, 178, 193   param.in === where && parameters[param.name]
Placed(e, p, where) ==
    [n \in ParamNames |->
        IF e.parameters[n] = where /\ p[n] \notin {Absent, ""}
          THEN p[n] ELSE Absent]

\* part_013:208-212   isPathParam || isQueryParam || isHeaderParam
DeclaredElsewhere(e, key) == e.parameters[key] \in {"path", "query", "header"}

\* part_013:203-217   bodyParams
bodyParams(e, p) ==
    [n \in ParamNames |->
        IF /\ e.requestBodySchema
           /\ p[n] # Absent
           /\ ~DeclaredElsewhere(e, n)
          THEN p[n] ELSE Absent]

\* part_013:161-227
buildRequest(e, p, token) ==
    [method |-> toUpperCase(e.method),
     path |-> Placed(e, p, "path"),
     params |-> Placed(e, p, "query"),
     headers |-> Placed(e, p, "header"),
     authorization |-> token,
     data |-> IF IsWrite(e)
                THEN [object |-> TRUE, fields |-> bodyParams(e, p)]
                ELSE NoData]

\* part_013:39   const request = this.buildRequest(endpoint, parameters, token, ...)
\* (buildRequest has no state: it is applied once to each pair of inputs)
BuildRequest(e, p) ==
    /\ endpoint' = e
    /\ parameters' = p
    /\ request' = buildRequest(e, p, orgStore.accessToken)
    /\ UNCHANGED <<coordVars, histVars, decVars, idVars, sendVars>>

BuildNext ==
    /\ request = NoRequest
    /\ \E e \in Endpoints, p \in ParameterObjects : BuildRequest(e, p)

SpecBuildRequest == Init /\ [][BuildNext]_vars

\* ================================================= sendOperatorMessage
\* SalesiqMessageService (salesiqMessageService.js) with the token service
\* it calls (salesiqOauthService.js:22-95), one invocation at a time.

\* what `await axios.post(url, { text }, { timeout: 5000 })` comes to: a 2xx
\* response, an error with the status of the response, an error without a
\* response ("none": the timeout, no connection)
SendStatuses == {"200", "401", "404", "429", "500", "502", "503", "400", "none"}

Success == [success |-> TRUE, error |-> "none"]
Failure(error) == [success |-> FALSE, error |-> error]

\* salesiqOauthService.js:49-95  refreshAccessToken: the grant is written to
\* the document; it throws when there is no refresh token, when the token
\* endpoint refuses and when a call of the store throws
refreshAccessToken(token, ok) ==
    IF token.exists /\ token.refreshToken /\ ok
      THEN [ok |-> TRUE, token |-> [token EXCEPT !.stale = FALSE]]
      ELSE [ok |-> FALSE, token |-> token]

\* salesiqOauthService.js:22-41  getValidAccessToken (part_007:44-47
\* needsRefresh: the token expires within five minutes)
getValidAccessToken(token, findOk, grantOk) ==
    IF ~findOk \/ ~token.exists THEN [ok |-> FALSE, token |-> token]
    ELSE IF token.stale THEN refreshAccessToken(token, grantOk)
    ELSE [ok |-> TRUE, token |-> token]

\* salesiqMessageService.js:97-99   case 500: case 502: case 503:
IsServerErrorOrRateLimit(status) == status \in {"500", "502", "503", "429"}

IsServerError(status) == status \in {"500", "502", "503"}

\* salesiqMessageService.js:66-107  handleSendError up to its first await
\* (IsServerError is tried before the case of 429 here; no status is both)
handleSendError(s, status) ==
    LET failed == [s EXCEPT !.status = status] IN
    IF status = "401" THEN
        [failed EXCEPT !.pc = "refresh"]
    ELSE IF status = "404" THEN
        [failed EXCEPT !.pc = "done",
                       !.result = Failure("Conversation not found or closed")]
    ELSE IF IsServerError(status) THEN
        [failed EXCEPT !.pc = "delay"]
    ELSE IF status = "429" THEN
        [failed EXCEPT !.pc = "done", !.result = Failure("Rate limit exceeded")]
    ELSE
        [failed EXCEPT !.pc = "done", !.result = Failure("error.message")]

\* salesiqMessageService.js:22-29: entry of sendOperatorMessage
sendOperatorMessage(complete) ==
    /\ sender.pc \in {"idle", "done"}
    /\ nSends < MaxSends
    /\ nSends' = nSends + 1
    /\ sender' = IF complete
                   THEN [NoSend EXCEPT !.pc = "getToken"]
                   ELSE [NoSend EXCEPT !.pc = "done",
                                       !.result = Failure("Missing required parameters")]
    /\ UNCHANGED <<salesiqToken, coordVars, histVars, decVars, idVars, brVars>>

\* salesiqMessageService.js:31-33, 56-57: after `await getValidAccessToken`
SendGetToken(findOk, grantOk) ==
    /\ sender.pc = "getToken"
    /\ LET r == getValidAccessToken(salesiqToken, findOk, grantOk) IN
       /\ salesiqToken' = r.token
       /\ sender' = IF r.ok THEN [sender EXCEPT !.pc = "post"]
                            ELSE handleSendError(sender, "none")
    /\ UNCHANGED <<nSends, coordVars, histVars, decVars, idVars, brVars>>

\* salesiqMessageService.js:39-57: after `await axios.post`
SendPost(status) ==
    /\ sender.pc = "post"
    /\ LET posted == [sender EXCEPT !.sends = @ + 1] IN
       sender' = IF status = "200"
                   THEN [posted EXCEPT !.pc = "done", !.result = Success]
                   ELSE handleSendError(posted, status)
    /\ UNCHANGED <<salesiqToken, nSends, coordVars, histVars, decVars, idVars, brVars>>

\* salesiqMessageService.js:76-86: case 401, after `await refreshAccessToken`;
\* retryOnce is called when it has not thrown
SendRefresh(ok) ==
    /\ sender.pc = "refresh"
    /\ LET r == refreshAccessToken(salesiqToken, ok)
           refreshed == [sender EXCEPT !.refreshes = @ + 1] IN
       /\ salesiqToken' = r.token
       /\ sender' = IF r.ok
                      THEN [refreshed EXCEPT !.pc = "retryToken", !.retries = @ + 1]
                      ELSE [refreshed EXCEPT
                              !.pc = "done",
                              !.result = Failure("Authentication failed. Please re-authorize SalesIQ.")]
    /\ UNCHANGED <<nSends, coordVars, histVars, decVars, idVars, brVars>>

\* salesiqMessageService.js:97-103: case 500, 502, 503, after `await this.delay(1000)`
SendDelay ==
    /\ sender.pc = "delay"
    /\ sender' = [sender EXCEPT !.pc = "retryToken", !.retries = @ + 1]
    /\ UNCHANGED <<salesiqToken, nSends, coordVars, histVars, decVars, idVars, brVars>>

\* salesiqMessageService.js:114-121, 135-138: retryOnce after
\* `await getValidAccessToken`
RetryGetToken(findOk, grantOk) ==
    /\ sender.pc = "retryToken"
    /\ LET r == getValidAccessToken(salesiqToken, findOk, grantOk) IN
       /\ salesiqToken' = r.token
       /\ sender' = IF r.ok THEN [sender EXCEPT !.pc = "retryPost"]
                            ELSE [sender EXCEPT !.pc = "done",
                                                !.result = Failure("Retry failed")]
    /\ UNCHANGED <<nSends, coordVars, histVars, decVars, idVars, brVars>>

\* salesiqMessageService.js:122-139: retryOnce after `await axios.post`
RetryPost(status) ==
    /\ sender.pc = "retryPost"
    /\ LET posted == [sender EXCEPT !.sends = @ + 1] IN
       sender' = IF status = "200"
                   THEN [posted EXCEPT !.pc = "done", !.result = Success]
                   ELSE [posted EXCEPT !.pc = "done", !.result = Failure("Retry failed")]
    /\ UNCHANGED <<salesiqToken, nSends, coordVars, histVars, decVars, idVars, brVars>>

\* part_007:44-47: the expiry of the token comes within five minutes; the
\* portal is de-authorized (the refresh token, or the document, is removed)
SalesiqTokenChange(kind) ==
    /\ salesiqToken.exists
    /\ \/ kind = "stale" /\ ~salesiqToken.stale
          /\ salesiqToken' = [salesiqToken EXCEPT !.stale = TRUE]
       \/ kind = "noRefreshToken" /\ salesiqToken.refreshToken
          /\ salesiqToken' = [salesiqToken EXCEPT !.refreshToken = FALSE]
       \/ kind = "removed"
          /\ salesiqToken' = [salesiqToken EXCEPT !.exists = FALSE]
    /\ UNCHANGED <<sender, nSends, coordVars, histVars, decVars, idVars, brVars>>

\* the steps of an invocation that has started
SendStep ==
    \/ \E f \in BOOLEAN, g \in BOOLEAN : SendGetToken(f, g)
    \/ \E st \in SendStatuses : SendPost(st)
    \/ \E ok \in BOOLEAN : SendRefresh(ok)
    \/ SendDelay
    \/ \E f \in BOOLEAN, g \in BOOLEAN : RetryGetToken(f, g)
    \/ \E st \in SendStatuses : RetryPost(st)

SendNext ==
    \/ \E c \in BOOLEAN : sendOperatorMessage(c)
    \/ SendStep
    \/ \E k \in {"stale", "noRefreshToken", "removed"} : SalesiqTokenChange(k)

\* every call an invocation awaits settles: the requests to the message
\* endpoint carry a timeout of 5 s, the delay is a timer of 1 s
SendFairness == WF_vars(SendStep)

SpecSend == Init /\ [][SendNext]_vars /\ SendFairness

\* ======================================================== the properties
\* a background continuation of turn t is attached and has not ended
InBackground(t) == cont[t] # "none"
\* the step is the lock check of turn t (orgController.js:224) with no
\* pending reply and no lookup failure before it
AtLockCheck(t) ==
    /\ pc[t] = "findOne"
    /\ pc'[t] # "findOne"
    /\ conversation[t] # DbError
    /\ ~(conversation[t].exists /\ conversation[t].pendingReplyText # Null)
\* the step is turn t finding a pending reply after its lookup
FindsPending(t) ==
    /\ pc[t] = "findOne"
    /\ pc'[t] # "findOne"
    /\ conversation[t] # DbError
    /\ conversation[t].exists /\ conversation[t].pendingReplyText # Null

\* C1: for every (tenant, visitor) pair at most one pipeline is in flight in
\* every reachable state.
C1_OnePipelinePerPair ==
    \A t1 \in Turns, t2 \in Turns :
        (t1 # t2 /\ pipe[t1] = "running" /\ pipe[t2] = "running")
            => PairOf(t1) # PairOf(t2)

\* C2: after the timer won, the lock of the conversation stays held until the
\* background continuation of that pipeline has finished.
C2_LockHeldInBackground ==
    \A t \in Turns : InBackground(t) => KeyOf(t) \in processingLock

\* C3: the finally block of the turn and the finally of its background
\* continuation never both release the lock of one acquisition.
C3_OneReleasePath ==
    [][\A t \in Turns :
          (InBackground(t) /\ ~InBackground(t)') => ~aux[t].syncRel]_vars

\* C4: a request id submitted again while the 60 s timer of its first
\* submission is pending gets the empty success body, and the submission
\* handles no trigger, takes no lock and starts no pipeline.
C4_DuplicateAbsorbed ==
    [][(/\ nTurns' = nTurns + 1
        /\ inp'.handler # "ping"
        /\ inp'.rid # NoId
        /\ timers[inp'.rid] > 0)
       => (/\ out' = Reply("duplicate", 200, "empty", "")
           /\ pc'[nTurns'] = "done"
           /\ UNCHANGED <<processedRequests, timers, processingLock, db, sessions,
                          req, pipe, pipeResult, cont, conv, conversation>>)]_vars

C4_Witness ==
    /\ out.via = "duplicate"
    /\ inp.rid # NoId
    /\ timers[inp.rid] = 1
    /\ \E t \in Turns : pc[t] = "done"

\* C5 as stated: a message event that arrives while the lock of its pair is
\* held (and whose lookup of the conversation succeeds) is answered with the
\* contention notice and starts no pipeline.  Stated for the turns that reach
\* their lock check while no pipeline is running in the background.
C5_ArrivalWhileHeld ==
    [][\A t \in Turns :
          (/\ pc[t] = "findOne" /\ pc'[t] # "findOne"
           /\ conversation[t] # DbError
           /\ aux[t].heldAtArrival
           /\ \A u \in Turns : ~InBackground(u))
              => (out'.text = ContentionMessage /\ pc'[t] = "done")]_vars

\* C5 amended: a message event whose lock check (made after its lookup found
\* no pending reply) finds the lock of its pair held is answered with the
\* contention notice, takes no lock and starts no pipeline; a pipeline is
\* only ever started by the lock check of a turn that found the lock free,
\* so no pipeline runs later for an event that was turned away.
C5_ContentionAtLockCheck ==
    [][\A t \in Turns :
          /\ (AtLockCheck(t) /\ KeyOf(t) \in processingLock)
                => (/\ out' = Reply("contention", 200, "replies", ContentionMessage)
                    /\ pc'[t] = "done"
                    /\ pipe'[t] = "none"
                    /\ cont'[t] = "none"
                    /\ UNCHANGED processingLock)
          /\ (pipe[t] # "running" /\ pipe'[t] = "running")
                => (AtLockCheck(t) /\ ~(KeyOf(t) \in processingLock))]_vars

C5_Witness ==
    /\ out.via = "contention"
    /\ out.text = ContentionMessage
    /\ \E t \in Turns : pipe[t] = "running" /\ KeyOf(t) \in processingLock

\* C6: in the race of a message turn, when the pipeline settled before the
\* timer the response text is exactly the pipeline's result; when the timer
\* fired first the response text is the fixed interim text, which is no
\* result of the pipeline.
C6_RaceResponse ==
    [][\A t \in Turns :
          (pc[t] = "race" /\ pc'[t] = "done")
              => /\ out'.status = 200 /\ out'.body = "replies"
                 /\ pipe[t] = "done" => out'.text = pipeResult[t]
                 /\ pipe[t] = "running" =>
                        (out'.text = InterimMessage /\ ~(out'.text \in PipelineResults))]_vars

\* a turn has answered with its pipeline's result after another turn had
\* answered with the interim text and finished in the background
C6_Witness ==
    /\ out.via = "pipeline"
    /\ out.text = ActionDone
    /\ bg # "none"

\* C7: after the timer won, the completion of the background pipeline has
\* performed exactly one of {successful push, write of the pending reply}
\* when it ends, and the lock was held until then.
C7_PushOrStoreBeforeRelease ==
    [][\A t \in Turns :
          (InBackground(t) /\ ~InBackground(t)')
              => (bg' \in {"pushed", "stored"} /\ KeyOf(t) \in processingLock)]_vars

\* C8: a pending reply older than 5 minutes is never returned by a message turn.
C8_StalePendingNotReturned ==
    [][\A t \in Turns :
          (pc[t] = "clearing" /\ pc'[t] = "done" /\ out'.via = "pending")
              => aux[t].readAge <= FreshMinutes]_vars

C10_LastTenInOrder ==
    /\ Len(messages) <= MaxMessages
    /\ Len(messages) = IF Len(added) < MaxMessages THEN Len(added) ELSE MaxMessages
    /\ \A i \in 1 .. Len(messages) :
          messages[i] = added[Len(added) - Len(messages) + i]

C10_Witness ==
    /\ Len(added) > MaxMessages
    /\ Len(messages) = MaxMessages
    /\ messages[1].timestamp = Len(added) - MaxMessages + 1

\* ------------------------------------------------ claims on the pipeline
\* the invocation has returned and no call it awaited threw
Completed == ppc = "done" /\ ~obs.fault
\* the texts of a clarification question in the low-confidence branch
ClarifyTexts == {LowConfidenceReply(d) : d \in Decisions}
\* the decision listed only parameters that auto-resolution supplied
AllSupplied == obs.resolved /\ obs.returned.missing_parameters = <<"userId">>
\* the parameters of the returned decision that auto-resolution left missing
StillMissing ==
    IF obs.resolved
      THEN SelectSeq(obs.returned.missing_parameters, LAMBDA p : p # "userId")
      ELSE obs.returned.missing_parameters

\* C11: a decision with call_api, confidence >= 0.8 and no missing parameters
\* makes handleDecision issue exactly one executeApiCall (and no resolver
\* call), and the clarification counter is 0 afterwards.
C11_HighConfidenceExecutesOnce ==
    (/\ Completed
     /\ obs.returned.call_api
     /\ Len(obs.returned.missing_parameters) = 0
     /\ obs.returned.confidence >= confidenceThreshold)
        => (/\ counts.action = 1
            /\ counts.resolve = 0
            /\ ex.pc = "done"
            /\ doc.clarificationAttempts = 0
            /\ convStore.clarificationAttempts = 0)

C11_Witness ==
    /\ Completed
    /\ obs.returned.call_api
    /\ Len(obs.returned.missing_parameters) = 0
    /\ obs.returned.confidence = 95
    /\ obs.before > 0
    /\ counts.action = 1
    /\ convStore.clarificationAttempts = 0

\* C12: of consecutive low-confidence turns (confidence < 0.8, no missing
\* parameters) that start with the counter at 0, the first two answer with a
\* clarification question and the third with the rephrase fallback, after
\* which the counter is 0; any three consecutive low-confidence turns contain
\* a rephrase fallback.
C12_ThreeLowConfidenceTurns ==
    /\ \A i \in 1 .. Len(streak) :
          streak[i].before = 0 =>
              /\ streak[i].text \in ClarifyTexts
              /\ streak[i].after = 1
              /\ i + 1 <= Len(streak) =>
                    (streak[i + 1].text \in ClarifyTexts /\ streak[i + 1].after = 2)
              /\ i + 2 <= Len(streak) =>
                    (streak[i + 2].text = RephraseMessage /\ streak[i + 2].after = 0)
    /\ \A i \in 1 .. Len(streak) :
          i + 2 <= Len(streak) =>
              \E j \in i .. i + 2 : streak[j].text = RephraseMessage
    /\ ~(RephraseMessage \in ClarifyTexts)

C12_Witness ==
    /\ Len(streak) = 3
    /\ streak[1].before = 0
    /\ streak[3].text = RephraseMessage
    /\ convStore.clarificationAttempts = 0

\* C13: the stored clarification counter never exceeds the maximum of 2.
C13_CounterBounded == convStore.clarificationAttempts <= maxClarificationAttempts

C15_AlwaysSuccessStatus ==
    (out.via \notin {"none", "ping", "duplicate"})
        => (out.status = 200 /\ out.body = "replies")

\* C16: the promise returned by processMessage is never rejected: once the
\* invocation is over it is fulfilled with a non-empty string, which is the
\* apology when a call awaited inside it threw.
C16_NeverRejects ==
    /\ settled.state # "rejected"
    /\ ppc = "done" => (settled.state = "fulfilled" /\ settled.text # "")
    /\ (ppc = "done" /\ obs.fault) => settled.text = ErrorMessage
    /\ ppc # "done" => settled = Pending

C16_Witness ==
    /\ ppc = "done"
    /\ obs.fault
    /\ counts.action = 1
    /\ settled = [state |-> "fulfilled", text |-> ErrorMessage]

\* C17: a lock that is held is eventually released.
C17_LockEventuallyReleased ==
    \A p \in Pairs :
        (conversationKey(p[1], p[2]) \in processingLock)
            ~> ~(conversationKey(p[1], p[2]) \in processingLock)

C17_Witness ==
    /\ processingLock = {}
    /\ out.via = "pipeline"
    /\ \E t \in Turns : pc[t] = "done" /\ pipe[t] = "none" /\ cont[t] = "none"

C19_ConversationalNoAction ==
    (/\ Completed
     /\ counts.decide = 1
     /\ ~obs.returned.call_api)
        => (/\ counts.action = 0
            /\ counts.resolve = 0
            /\ ex = NoEx
            /\ settled.text = ConversationalReply
            /\ convStore.clarificationAttempts = 0)

C19_Witness ==
    /\ Completed
    /\ counts.decide = 1
    /\ ~obs.returned.call_api
    /\ obs.returned.confidence = 95
    /\ obs.before > 0
    /\ settled.text = ConversationalReply

\* C20: when retrieval yields no candidate, also because the vector search
\* threw, the turn answers with the no-match message, the counter is 0
\* afterwards, and no decision call and no action call is made.
C20_NoCandidates ==
    (/\ Completed
     /\ counts.search = 1
     /\ obs.candidates = 0)
        => (/\ settled.text = NoMatchMessage
            /\ convStore.clarificationAttempts = 0
            /\ counts.decide = 0
            /\ counts.resolve = 0
            /\ counts.action = 0)

C20_Witness ==
    /\ Completed
    /\ counts.search = 1
    /\ obs.searchThrew
    /\ obs.before > 0
    /\ settled.text = NoMatchMessage
    /\ convStore.clarificationAttempts = 0

\* ------------------------------------------------ claims on the resolver
\* the steps at which tryResolveUserId gives up
FindFailures == FindOutcomes \ {"endpoint"}
ResolverFailures == FindFailures \cup {"callFailed", "noIdentity", "saveFailed"}
\* the invocation is inside tryResolveUserId
InResolver == ppc \in {"resolve", "resolverCall", "resolverSave"}

\* C21: tryResolveUserId never raises.  When it ends, handleDecision goes on
\* (the invocation has not failed); when it ends after no resolver endpoint
\* was found, the resolver call failed, the response had no identity field
\* or the save was rejected, it has returned null: userId stays missing, the
\* invocation goes to the question for the missing parameters, and a
\* completed turn answers with that question and executes nothing.
C21_ResolverFailureAsksUser ==
    [][/\ (InResolver /\ ~InResolver')
            => (/\ ppc' \in {"incrementMissing", "resetHigh", "incrementLow", "resetLow"}
                /\ obs'.fault = obs.fault
                /\ settled' = settled
                /\ (obs'.found \in FindFailures \/ obs'.resolver \in ResolverFailures)
                      => (/\ ~obs'.resolved
                          /\ decision'.missing_parameters = obs.returned.missing_parameters
                          /\ ppc' = "incrementMissing"))
       /\ (Completed /\ counts.resolve = 1
            /\ (obs.found \in FindFailures \/ obs.resolver \in ResolverFailures))'
            => (/\ settled.text = MissingReply(obs.returned)
                /\ counts.action = 0
                /\ convStore.clarificationAttempts = obs.before + 1)']_vars

\* a turn whose resolver found the identity but could not save it has asked
\* the user for the parameter
C21_Witness ==
    /\ Completed
    /\ obs.resolver = "saveFailed"
    /\ MissesUserId(obs.returned)
    /\ settled.text = MissingReply(obs.returned)
    /\ counts.action = 0

\* the stored document holds a resolved userId
DurablyKnown(c) == c.knownIds["userId"] # Null \/ c.resolvedParameters["userId"] # Null
\* the Redis entry of the conversation holds a resolved userId
CacheKnown == redisKnownIds.stored /\ redisKnownIds.value["userId"] # Null

\* C22: once tryResolveUserId has resolved userId (and its save succeeded),
\* the value is in the stored Conversation document and in the Redis entry
\* of the conversation.
C22_ResolvedStoredInBoth ==
    (obs.resolver = "resolved") => (DurablyKnown(convStore) /\ CacheKnown)

\* C23: no step removes a key from the knownIds map of the stored
\* conversation, nor from the resolved parameters it stores: a key that is
\* present stays present (its value may change).
C23_KnownIdsOnlyGrow ==
    [][\A k \in IdKeys :
          /\ convStore.knownIds[k] # Null => convStore'.knownIds[k] # Null
          /\ convStore.resolvedParameters[k] # Null
                => convStore'.resolvedParameters[k] # Null]_vars

\* both keys are stored, userId with the second value, after three calls of
\* setKnownId and a resolution
C23_Witness ==
    /\ nSets = 3
    /\ convStore.knownIds["userId"] = "u2"
    /\ convStore.knownIds["email"] = "u1"
    /\ doc.resolvedParameters["userId"] # Null
    /\ redisKnownIds.stored
    /\ redisKnownIds.value # convStore.knownIds

\* ------------------------------------------------ claims on the executor
\* the classes of a result of executeApiCall (part_013:46-84)
FailureClasses == {"API_ERROR", "AUTH_ERROR", "EXECUTION_ERROR"}

\* C24: every executeApiCall that has returned is in exactly one of the
\* classes success, API_ERROR, AUTH_ERROR and EXECUTION_ERROR, and the
\* message of a failure class differs from the messages of the other two.
C24_ClassesAndMessages ==
    (ex.pc = "done")
        => (/\ ex.result \in {"success"} \cup FailureClasses
            /\ ex.result \in FailureClasses
                  => \A other \in FailureClasses \ {ex.result} :
                        ResultMessage(ex.result) # ResultMessage(other))

\* C25: an outbound call that the upstream answered with a server error has
\* been issued twice (one retry), and one answered with 401 has been issued
\* again after a refresh of the token.
C25_RetriesOnce ==
    (ex.pc = "done" /\ ex.http \in {"503", "401"})
        => (/\ ex.outbound = 2
            /\ ex.http = "401" => ex.refreshes >= 1)

\* ----------------------------------------------- claims on buildRequest
\* C26: for a POST, PUT or PATCH endpoint, every supplied
\* parameter that the spec does not declare in the path, the query or a
\* header is in the body, and no parameter declared there is in the body.
C26_UndeclaredInBody ==
    IsWrite(endpoint)
        => \A n \in ParamNames :
              /\ (parameters[n] # Absent
                  /\ endpoint.parameters[n] \notin {"path", "query", "header"})
                    => (request.data.object /\ request.data.fields[n] = parameters[n])
              /\ endpoint.parameters[n] \in {"path", "query", "header"}
                    => request.data.fields[n] = Absent

\* ---------------------------------------------- claims on the ingress
\* the step is the arrival of event e
Arrives(e) == nTurns' = nTurns + 1 /\ inp' = e

\* C27: a validation ping is answered at once with {status: 'ok'} and
\* changes nothing else: its request id is not registered and no timer is
\* set, no lock is taken, no conversation is read and no pipeline or
\* continuation is started.
C27_PingChangesNothing ==
    [][\A e \in IngressEvents :
          (Arrives(e) /\ e.handler = "ping")
              => (/\ out' = Reply("ping", 200, "ok", "")
                  /\ pc'[nTurns'] = "done"
                  /\ UNCHANGED <<processedRequests, timers, processingLock, db,
                                 pendingAge, sessions, req, conversation, saveOk,
                                 pipe, pipeResult, cont, conv, bg, aux>>)]_vars

\* a ping that carries a request id has been answered while a pipeline held
\* the lock; the id is not in the deduplication set
C27_Witness ==
    /\ out.via = "ping"
    /\ inp.handler = "ping"
    /\ inp.rid \in RequestIds
    /\ inp.rid \notin processedRequests
    /\ timers[inp.rid] = 0
    /\ processingLock # {}

\* C29: a request id is in the deduplication set exactly while the timer of
\* its acceptance is pending: it enters the set with one new timer, leaves it
\* only when that timer fires, and no other step (a duplicate in particular)
\* sets, restarts or cancels a timer; an event whose id is not in the set any
\* more is not answered as a duplicate: it registers the id again and goes
\* on to its handler.
C29_DedupWindow ==
    [][/\ \A r \in RequestIds :
            /\ (r \in processedRequests) <=> (timers[r] = 1)
            /\ (r \notin processedRequests /\ r \in processedRequests')
                  => (timers[r] = 0 /\ timers'[r] = 1)
            /\ (r \in processedRequests /\ r \notin processedRequests')
                  => (timers[r] = 1 /\ timers'[r] = 0)
            /\ (timers'[r] # timers[r])
                  => ((r \in processedRequests) # (r \in processedRequests'))
       /\ \A e \in IngressEvents :
            (Arrives(e) /\ e.handler # "ping" /\ e.rid # NoId)
                => IF e.rid \in processedRequests
                     THEN /\ out'.via = "duplicate"
                          /\ UNCHANGED <<processedRequests, timers>>
                     ELSE /\ out' = out
                          /\ e.rid \in processedRequests'
                          /\ pc'[nTurns'] = (IF e.handler = "trigger" THEN "trigger"
                                                                      ELSE "findOne")]_vars

\* the id of a trigger was submitted again with a message after its timer
\* had fired: the message is being handled and the id is registered again
C29_Witness ==
    /\ nTurns = 2
    /\ sessions # {}
    /\ inp.handler = "message"
    /\ inp.rid = "r1"
    /\ pc[2] = "findOne"
    /\ "r1" \in processedRequests
    /\ timers["r1"] = 1

\* C28: a message turn is answered with the contention notice only when
\* another turn of the same (tenant, visitor) pair has started a pipeline
\* that is not over: a pipeline of a different pair never causes it.
C28_LocksOfPairsIndependent ==
    [][\A t \in Turns :
          (AtLockCheck(t) /\ pc'[t] = "done" /\ out'.text = ContentionMessage)
              => \E u \in Turns \ {t} :
                    /\ PairOf(u) = PairOf(t)
                    /\ pipe[u] # "none"]_vars


\* the invocation in progress, or the one that has just ended, is the turn of
\* a userMessage that isGreeting classified as a greeting (line 77)
GreetingTurn == ppc # "idle" /\ obs.greeting

\* C30: in the turn of a message that isGreeting classifies as a greeting, no
\* vector search, no decision call, no auto-resolution and no executeApiCall
\* is issued and the clarification counter, stored and in memory, stays what
\* it was when the turn started; the messages the turn saves are the user
\* message followed by the greeting, both of them when the turn returns the
\* greeting and the first of them or none when a save() throws.
C30_GreetingSkipsPipeline ==
    GreetingTurn =>
        /\ counts = NoCounts
        /\ ex = NoEx
        /\ decision = ErrorDecision
        /\ convStore.clarificationAttempts = obs.before
        /\ doc.exists => doc.clarificationAttempts = obs.before
        /\ ppc \in {"findOne", "greeting", "done"}
        /\ (ppc = "done" /\ settled.state = "fulfilled" /\ ~obs.fault) =>
              /\ settled.text = GreetingText
              /\ obs.appended = <<[role |-> "user", text |-> obs.message],
                                  [role |-> "bot", text |-> GreetingText]>>
        /\ (ppc = "done" /\ obs.fault) =>
              obs.appended \in {<<>>, <<[role |-> "user", text |-> obs.message]>>}
        /\ ppc # "done" => obs.appended = <<>>

\* a greeting turn has returned the greeting, in a conversation whose
\* clarification counter is not zero
C30_Witness ==
    /\ GreetingTurn
    /\ ppc = "done"
    /\ settled = [state |-> "fulfilled", text |-> GreetingText]
    /\ Len(obs.appended) = 2
    /\ convStore.clarificationAttempts > 0

\* ------------------------------------------------ claims of the last group
\* the reasoning call of the invocation threw, or its text was no JSON
DecideFailed == obs.decide \in {"callFailed", "notJson"}

\* C31: when the reasoning call throws or returns a text that is no JSON,
\* decideEndpoint returns a decision with call_api false and confidence 0;
\* the turn then issues no auto-resolution and no executeApiCall, the promise of
\* processMessage is not rejected, and the turn answers with the
\* conversational reply (with the apology of the catch block when the save
\* of the counter throws).
C31_DecisionFailureIsConversational ==
    DecideFailed =>
        /\ ~obs.returned.call_api
        /\ obs.returned.confidence = 0
        /\ decision = obs.returned
        /\ counts.action = 0
        /\ counts.resolve = 0
        /\ ex = NoEx
        /\ settled.state # "rejected"
        /\ ppc \in {"resetConversational", "history", "done"}
        /\ ppc = "done" =>
              /\ settled.state = "fulfilled"
              /\ settled.text = IF obs.fault THEN ErrorMessage ELSE ConversationalReply
              /\ ~obs.fault => convStore.clarificationAttempts = 0

\* a turn whose reasoning text was no JSON has answered with the
\* conversational reply and reset a counter that was not zero
C31_Witness ==
    /\ Completed
    /\ obs.decide = "notJson"
    /\ obs.before > 0
    /\ settled.text = ConversationalReply
    /\ Len(obs.appended) = 2

\* C32: a tryResolveUserId that finds userId in conversation.resolvedParameters
\* returns it without findResolverEndpoint and without executeApiCall; and
\* once tryResolveUserId has returned a userId in the conversation, no later
\* tryResolveUserId calls the resolver endpoint.
C32_ResolvedOnceNeverCalledAgain ==
    /\ obs.resolver = "cached" => (obs.resolved /\ obs.found = "none" /\ ex = NoEx)
    /\ obs.resolvedEarlier => ~(ppc = "resolverCall" /\ ex.outbound > 0)

\* C33: when getOAuthToken has refreshed an expired token, the record of the
\* tenant holds the new access token before the outbound call is issued with
\* it, and the record as updateOAuthToken wrote it is valid (isTokenValid).
C33_RefreshedTokenIsValid ==
    [][(ex.pc = "refresh" /\ ex'.pc = "request")
          => (/\ ex'.persisted
              /\ ex'.outbound = 0
              /\ orgStore'.accessToken = ex'.token
              /\ ex'.token # ex.old
              /\ IsTokenValid(orgStore'))]_vars

\* the result and the counts of a sendOperatorMessage invocation
C34_Bounded ==
    /\ sender.sends <= 2
    /\ sender.retries <= 1
    /\ sender.refreshes <= 1
    /\ sender.sends <= 1 + sender.retries
    /\ sender.pc = "done" =>
          /\ sender.result.success \in BOOLEAN
          /\ sender.result.success => sender.sends >= 1
          /\ sender.status = "401" =>
                /\ sender.refreshes = 1
                /\ sender.retries = 0 =>
                      (/\ sender.sends = 1
                       /\ sender.result =
                            Failure("Authentication failed. Please re-authorize SalesIQ."))
          /\ sender.status \in {"500", "502", "503"} =>
                (sender.retries = 1 /\ sender.refreshes = 0)
          /\ sender.status \notin {"401", "500", "502", "503"} =>
                (sender.retries = 0 /\ sender.refreshes = 0 /\ sender.sends <= 1)
          /\ (sender.status \in {"404", "429", "400"} \/ sender.sends = 0) =>
                ~sender.result.success
          /\ sender.retries = 1 =>
                \/ sender.result = Success /\ sender.sends = 2
                \/ sender.result = Failure("Retry failed")

\* C34: sendOperatorMessage ends, with a result {success}, after at most two
\* requests to the message endpoint: on a 401 it calls refreshAccessToken
\* once and then retryOnce once, or ends without a retry when the refresh
\* throws; on a 500, 502 or 503 it calls retryOnce once; on a 404, a 429 and
\* any other error it ends without a retry; a retry that fails ends the
\* invocation.
C34_SendTerminates ==
    /\ []C34_Bounded
    /\ (sender.pc \notin {"idle", "done"}) ~> (sender.pc = "done")

\* a 401 has been answered with a refresh and a retry that failed; two
\* requests were posted
C34_Witness ==
    /\ sender.pc = "done"
    /\ sender.status = "401"
    /\ sender.refreshes = 1
    /\ sender.retries = 1
    /\ sender.sends = 2
    /\ sender.result = Failure("Retry failed")
    /\ nSends = 2


\* a step in which the handler invocation of turn t writes its response and
\* returns
Responds(t) == pc[t] # "done" /\ pc'[t] = "done"

\* a step of the background continuation of turn t
ContinuationStep(t) == cont[t] # "none" /\ cont'[t] # cont[t]

\* C35: every event handled by handleWebhook receives exactly one response:
\* the invocation of a turn ends only by writing a response, a response is
\* written only by the one invocation that ends in that step, an invocation
\* that has responded never responds again, and no step of the background
\* continuation of a turn writes a response or restarts its handler.
C35_ExactlyOneResponse ==
    [][/\ \A t \in Turns :
            /\ Responds(t) => out'.via # "none"
            /\ pc[t] = "done" => pc'[t] = "done"
            /\ ContinuationStep(t) => (out' = out /\ pc' = pc)
       /\ out' # out => \E t \in Turns : Responds(t)
       /\ Cardinality({t \in Turns : Responds(t)}) <= 1]_vars

\* the timer won, the interim reply is the last response written, and the
\* background continuation of that turn has stored its result and ended
C35_Witness ==
    /\ out.via = "interim"
    /\ bg = "stored"
    /\ \E t \in Turns : pc[t] = "done" /\ cont[t] = "none" /\ pipe[t] = "none"
    /\ \A t \in Turns : pc[t] \in {"idle", "done"}


\* turn t has read a pending reply and its save that clears it succeeds:
\* the invocation returns the text it read (orgController.js:207-218)
ReturnsPending(t) ==
    /\ pc[t] = "clearing"
    /\ saveOk[t]
    /\ HasPendingReply(conversation[t])

\* C36: a stored pending reply is returned to at most one message event: no
\* two message events of one (tenant, visitor) are each about to return the
\* pending text they read from the conversation.
C36_PendingReturnedOnce ==
    \A t1, t2 \in Turns :
        (/\ t1 # t2
         /\ PairOf(t1) = PairOf(t2)
         /\ ReturnsPending(t1)
         /\ ReturnsPending(t2))
            => conversation[t1].pendingReplyText # conversation[t2].pendingReplyText


\* the step is the .finally of the background continuation of turn t
\* (orgController.js:293-296)
BackgroundRelease(t) == InBackground(t) /\ cont'[t] = "none"

\* turn t has set the lock (orgController.js:233) and its invocation has not
\* reached its own release yet
HoldsLock(t) == pc[t] = "race" /\ KeyOf(t) \in processingLock

\* C37: a lock entry is removed only on behalf of the turn that set it: the
\* release performed by the background continuation of a turn A never removes
\* the lock that a later turn B of the same conversation has acquired and
\* still holds.
C37_ReleaseOnlyOwnLock ==
    [][\A a, b \in Turns :
          (/\ a # b
           /\ BackgroundRelease(a)
           /\ HoldsLock(b)
           /\ KeyOf(b) = KeyOf(a))
              => KeyOf(b) \in processingLock']_vars


\* the step is the continuation of turn t writing its result as the pending
\* reply of a stored conversation (orgController.js:279-280, 285-286) with a
\* save that succeeds
WritesPending(t) ==
    /\ cont[t] \in {"findOne", "pushing"}
    /\ cont'[t] = "saved"
    /\ db[PairOf(t)].exists

\* C38: no background result is lost by overwriting: whenever a
\* background-completed pipeline writes its result as the pending reply of
\* the conversation, the conversation holds no earlier pending reply that
\* has not been delivered to the visitor.
C38_NoPendingOverwritten ==
    [][\A t \in Turns :
          WritesPending(t) => db[PairOf(t)].pendingReplyText = Null]_vars


\* C39: in every turn the endpoint chosen by the decision is executed only
\* if call_api is true, no missing parameter remains after auto-resolution
\* and confidence >= 0.8; in every other branch of handleDecision the chosen
\* endpoint is never called (a call of the resolver endpoint is counted
\* apart, in counts.resolve).
C39_ExecutedOnlyWhenComplete ==
    counts.action > 0
        => (/\ counts.action = 1
            /\ counts.decide = 1
            /\ obs.returned.call_api
            /\ StillMissing = <<>>
            /\ obs.returned.confidence >= confidenceThreshold)

\* the endpoint was executed after auto-resolution supplied the one missing
\* parameter of a decision with call_api and confidence 0.95
C39_Witness ==
    /\ ppc = "done"
    /\ counts.action = 1
    /\ counts.resolve = 1
    /\ obs.resolved
    /\ obs.returned.call_api
    /\ obs.returned.missing_parameters = <<"userId">>
    /\ obs.returned.confidence = 95
    /\ ex.result = "success"


\* the step writes the error response of the outer catch
\* (orgController.js:333-341)
ErrorResponse == \E t \in Turns : Responds(t) /\ out'.via = "error"

\* C40: a request id is registered in the deduplication set before its event
\* is handled, and the error response does not remove it: an event that goes
\* on to its handler has its id in the set from that step on, the step that
\* answers with the error response leaves the set and the timers as they
\* are, and an event that arrives with a registered id after a handling
\* ended in the error response gets the empty acknowledgement and is not
\* handled (no session, no lookup, no lock, no pipeline).
C40_ErrorKeepsIdRegistered ==
    [][/\ \A e \in IngressEvents :
            /\ (Arrives(e) /\ e.rid # NoId /\ pc'[nTurns'] # "done")
                  => e.rid \in processedRequests'
            /\ (Arrives(e) /\ e.handler # "ping" /\ out.via = "error"
                           /\ e.rid \in processedRequests)
                  => (/\ out' = Reply("duplicate", 200, "empty", "")
                      /\ pc'[nTurns'] = "done"
                      /\ UNCHANGED <<processedRequests, timers, processingLock, db,
                                     sessions, req, conversation, pipe, pipeResult,
                                     cont, conv, bg>>)
       /\ ErrorResponse => UNCHANGED <<processedRequests, timers>>]_vars

\* the handling of the message with request id r1 has ended in the error
\* response, the id is still registered with its timer pending, and a
\* further event can arrive
C40_Witness ==
    /\ out.via = "error"
    /\ out.status = 500
    /\ inp.handler = "message"
    /\ inp.rid = "r1"
    /\ "r1" \in processedRequests
    /\ timers["r1"] = 1
    /\ nTurns < MaxTurns
    /\ \A t \in Turns : pc[t] \in {"idle", "done"}

====
